---- MODULE Spec2Model ----
(***************************************************************************)
(* The named-entity upsert orchestrator of bonsaidb-core                   *)
(* (schema/collection.rs, Entry::execute and the Entry builder) against    *)
(* one server that arbitrates writes by revision compare-and-swap.         *)
(*                                                                         *)
(* Every action that touches the server is one connection call: the        *)
(* server's atomic step, the response, and the caller's local code up to   *)
(* the point where it issues its next connection call.  pc[p] names the    *)
(* connection call that entry p has outstanding.                           *)
(*                                                                         *)
(* Spec     : one caller awaits one entry, configured in any way, while    *)
(*            other clients update and delete documents and connection     *)
(*            calls may fail.                                              *)
(* SpecRace : NumRacers callers await one entry for alice each, in any     *)
(*            interleaving (one after the other included), and nothing     *)
(*            else touches the collection.                                 *)
(*                                                                         *)
(* The numeric key-value builders (keyvalue/implementation/increment.rs)   *)
(* against a server that executes one KeyOperation in one step, and the    *)
(* documents of schema/document.rs.                                        *)
(*                                                                         *)
(* SpecKV      : one increment or decrement, blocking or suspending, built *)
(*               in any way, against a server that may fail or answer      *)
(*               with a value of the wrong type.                           *)
(* SpecCounter : NumCounters concurrent increments by 1 of one key.        *)
(* SpecDoc     : a caller makes a document, derives successors and         *)
(*               emissions from it, and awaits an entry that updates       *)
(*               alice while other clients write.                          *)
(* SpecStore   : a caller pushes payloads and gets documents back by id.   *)
(***************************************************************************)
EXTENDS Integers, Sequences, FiniteSets, TLC

\* ------------------------------------------------------------------ bounds
NumRacers  == 2     \* concurrent callers of SpecRace
MaxRetry   == 3     \* largest argument given to retry_limit()
MaxEnvOps  == 3     \* writes/deletes made by clients other than the callers
MaxFaults  == 1     \* connection calls that fail with a non-conflict error
MaxDocs    == 3     \* ids the server can hand out
Bits       == 8     \* width of the numeric type kept under a key
MaxAmount  == 10    \* largest amount of an increment or decrement
NumCounters == 2    \* concurrent increments of SpecCounter

Caller  == {1}
Racers  == 1 .. NumRacers
Ids     == 1 .. MaxDocs
Names   == {"alice", "bob"}

\* Option<String> namespaces and the keys of the key-value store.
NoNamespace  == [tag |-> "none", name |-> ""]
Namespace(n) == [tag |-> "some", name |-> n]
Namespaces   == {NoNamespace, Namespace("stats")}
Keys         == {"hits", "misses"}
Cells        == Namespaces \X Keys

\* ------------------------------------------------------- values and codecs
\* Col::Contents of the doc examples: a named record with a rank.
Contents(n, r) == [name |-> n, rank |-> r]

\* SerializedCollection::serialize / deserialize: the stored form is a tuple
\* of the fields, the in-memory form a record.
serialize(c)   == <<c.name, c.rank>>
deserialize(b) == [name |-> b[1], rank |-> b[2]]

\* Revision: lineage counter plus a fingerprint of the bytes it stands for.
Revision_initial(bytes) == [id |-> 0, digest |-> bytes]
next_revision(rev, bytes) ==
    IF rev.digest = bytes THEN [tag |-> "none"]
    ELSE [tag |-> "some", revision |-> [id |-> rev.id + 1, digest |-> bytes]]

NoDoc == [tag |-> "none"]
StoredDoc(rev, bytes) == [tag |-> "doc", revision |-> rev, contents |-> bytes]

\* CollectionDocument { header: (id, revision), contents }
CollectionDocument(i, rev, c) ==
    [tag |-> "doc", header |-> [id |-> i, revision |-> rev], contents |-> c]

NoHeader == [id |-> 0, revision |-> Revision_initial(<<>>)]

\* NamedReference::Name / NamedReference::Id
NameRef(n) == [tag |-> "Name", name |-> n, id |-> 0]
IdRef(i)   == [tag |-> "Id", name |-> "", id |-> i]
References == {NameRef(n) : n \in Names} \cup {IdRef(1)}

\* The insert callbacks (EntryInsert) and the update callback (EntryUpdate)
\* the callers pass: MyCollection::default under a name, and rank += 1;
\* rank += 2 is a second update callback a caller may configure.
NoCallback == [tag |-> "none"]
InsertCallbacks == {[tag |-> "some", value |-> Contents(n, 0)] : n \in Names}
IncRank == [tag |-> "some", fn |-> "inc"]
AddTwo == [tag |-> "some", fn |-> "add2"]
UpdateCallbacks == {IncRank, AddTwo}

\* EntryInsert::call
insert_call(cb) == cb.value

\* EntryUpdate::call: existing.rank += 1
update_call(cb, c) == [c EXCEPT !.rank = @ + (IF cb.fn = "inc" THEN 1 ELSE 2)]

\* Results of the future: Ok(Some(doc)), Ok(None), Err(error)
Unresolved   == [tag |-> "unresolved"]
OkSome(doc)  == [tag |-> "Ok", value |-> doc]
OkNone       == [tag |-> "Ok", value |-> NoDoc]
Err(e)       == [tag |-> "Err", error |-> e]

\* Error::DocumentConflict(collection, header), Error::DocumentNotFound and
\* the errors of the transport.
DocumentConflict(h) ==
    [kind |-> "DocumentConflict", collection |-> "MyCollection", header |-> h]
DocumentNotFound(i) ==
    [kind |-> "DocumentNotFound", collection |-> "MyCollection",
     header |-> [id |-> i, revision |-> Revision_initial(<<>>)]]
Transport ==
    [kind |-> "Transport", collection |-> "", header |-> NoHeader]
NoError ==
    [kind |-> "none", collection |-> "", header |-> NoHeader]

\* What the server saw of a write: the header presented, its answer, the
\* header in the answer, and whether the store changed.
NoWrite == [presented |-> NoHeader, out |-> "none", header |-> NoHeader,
            changed |-> FALSE]

\* ------------------------------------------------------------------- state
VARIABLES
    store,        \* server: id -> stored document (revision, bytes) or NoDoc
    nextId,       \* server: the id the next push receives
    pc,           \* per entry: "Pending", the outstanding call, or "Resolved"
    builder,      \* per entry: EntryState::Pending(Option<EntryBuilder>)
    args,         \* per entry: the parameters execute() was started with
    retry_limit,  \* per entry: execute()'s `mut retry_limit`
    existing,     \* per entry: execute()'s `mut existing`
    new_document, \* per entry: execute()'s `new_document`
    header,       \* per entry: the `header` bound by the DocumentConflict arm
    result,       \* per entry: the output of the future
    log,          \* per entry: the connection calls made, with their outcomes
    updateCalls,  \* per entry: invocations of update.call
    insertCalls,  \* per entry: invocations of insert.call
    loaded,       \* per entry: the document its most recent load returned
    lastWrite,    \* per entry: its most recent write as the server saw it
    lastError,    \* per entry: the error its most recent failed call returned
    committed,    \* per entry: the document its accepted write stored
    clock,        \* server: the number of changes made to the store so far
    lookedAt,     \* per entry: clock when its lookup was answered
    committedAt,  \* per entry: clock when its write was accepted
    envOps,       \* writes and deletes made so far by other clients
    faults        \* connection calls failed so far with a non-conflict error

\* The numeric key-value operations (keyvalue/implementation/increment.rs).
VARIABLES
    kv,           \* server: (namespace, key) -> the numeric value stored
    kvInitial,    \* the value every key held at the start
    numeric,      \* per operation: its Builder or AsyncBuilder
    allowed,      \* per operation: allow_overflow() has been called on it
    sent,         \* per operation: the KeyOperations it sent, in order
    served,       \* per operation: the value the server found and left
    response,     \* per operation: what execute_key_operation returned
    outcome       \* per operation: what the caller got

numerics == <<kv, kvInitial, numeric, allowed, sent, served, response, outcome>>

\* Documents in the caller's hand (schema/document.rs) and the typed push
\* and get of a collection.
VARIABLES
    document,     \* the Document made by Document::new
    successor,    \* what the last update_with of it returned
    emitted,      \* the last Map record emitted from it
    pushes,       \* the pushes made so far: payload and what push returned
    fetched       \* the last get: the id asked for and what get returned

documents == <<document, successor, emitted, pushes, fetched>>

\* What the entries never touch.
apart == <<numerics, documents>>

vars == <<store, nextId, pc, builder, args, retry_limit, existing,
          new_document, header, result, log, updateCalls, insertCalls, loaded,
          lastWrite, lastError, committed, clock, lookedAt, committedAt, envOps,
          faults, kv, kvInitial, numeric, allowed, sent, served, response, outcome,
          document, successor, emitted, pushes, fetched>>

server  == <<store, nextId, clock>>
history == <<log, updateCalls, insertCalls, loaded, lastWrite, lastError,
             committed, lookedAt, committedAt>>

\* -------------------------------------------------------------- the server
\* Connection::get
get(i) == store[i]

\* The stored document as the caller receives it (CollectionDocument::try_from).
try_from(i) == CollectionDocument(i, store[i].revision, deserialize(store[i].contents))

\* view::<ByNameView>().with_key(name).query_with_docs(): the matching
\* documents, ordered by id.
MatchingIds(n) ==
    {i \in Ids : store[i].tag = "doc" /\ deserialize(store[i].contents).name = n}

Min(S) == CHOOSE i \in S : \A j \in S : i <= j

\* load_document refusing a name that more than one document carries.
load_document_unique(ref) ==
    IF ref.tag = "Name"
    THEN IF Cardinality(MatchingIds(ref.name)) # 1 THEN 0 ELSE Min(MatchingIds(ref.name))
    ELSE IF get(ref.id).tag = "doc" THEN ref.id ELSE 0

\* NamedCollection::load_document: the id of the document the reference
\* resolves to, 0 when there is none.  A name takes the first match.
load_document(ref) ==
    IF ref.tag = "Name"
    THEN IF MatchingIds(ref.name) = {} THEN 0 ELSE Min(MatchingIds(ref.name))
    ELSE IF get(ref.id).tag = "doc" THEN ref.id ELSE 0

\* ServerUpdate without the comparison of revisions: the last writer wins.
ServerUpdate_unconditioned(doc) ==
    LET i     == doc.header.id
        cur   == store[i]
        bytes == serialize(doc.contents)
    IN  IF cur.tag # "doc"
        THEN [out |-> "notfound", header |-> doc.header, store |-> store]
        ELSE LET nxt == next_revision(cur.revision, bytes)
             IN  IF nxt.tag = "none"
                 THEN [out |-> "ok", header |-> doc.header, store |-> store]
                 ELSE [out |-> "ok",
                       header |-> [id |-> i, revision |-> nxt.revision],
                       store |-> [store EXCEPT ![i] = StoredDoc(nxt.revision, bytes)]]

\* Connection::update: compare-and-swap on the revision.
\* "ok" carries the new header, "conflict" the current one.
ServerUpdate(doc) ==
    LET i     == doc.header.id
        cur   == store[i]
        bytes == serialize(doc.contents)
    IN  IF cur.tag # "doc"
        THEN [out |-> "notfound", header |-> doc.header, store |-> store]
        ELSE IF cur.revision # doc.header.revision
        THEN [out |-> "conflict",
              header |-> [id |-> i, revision |-> cur.revision],
              store |-> store]
        ELSE LET nxt == next_revision(cur.revision, bytes)
             IN  IF nxt.tag = "none"
                 THEN [out |-> "ok", header |-> doc.header, store |-> store]
                 ELSE [out |-> "ok",
                       header |-> [id |-> i, revision |-> nxt.revision],
                       store |-> [store EXCEPT ![i] = StoredDoc(nxt.revision, bytes)]]

\* Connection::push: a fresh id and the initial revision.
ServerPush(c) ==
    LET bytes == serialize(c)
    IN  [header |-> [id |-> nextId, revision |-> Revision_initial(bytes)],
         store  |-> [store EXCEPT ![nextId] = StoredDoc(Revision_initial(bytes), bytes)]]

\* ---------------------------------------------------------------- helpers
Call(c, o) == [call |-> c, out |-> o]

Calls(p, c) == {k \in 1 .. Len(log[p]) : log[p][k].call = c}
Outcomes(p, c, o) == {k \in Calls(p, c) : log[p][k].out = o}

EntryBuilder(ref, ins, upd, n) ==
    [tag |-> "some", name |-> ref, insert |-> ins, update |-> upd, retry_limit |-> n]
Taken == [tag |-> "none", name |-> NameRef(""), insert |-> NoCallback,
          update |-> NoCallback, retry_limit |-> 0]

\* ------------------------------------------------------------------- Init
\* NamedCollection::entry for every caller; the collection is empty or holds
\* alice's document.
AliceAtStart == Contents("alice", 0)

InitialStores ==
    { [i \in Ids |-> NoDoc],
      [i \in Ids |-> IF i = 1
                     THEN StoredDoc(Revision_initial(serialize(AliceAtStart)),
                                    serialize(AliceAtStart))
                     ELSE NoDoc] }

\* entry starting with a budget of one retry.
entry_one_retry(ref) == EntryBuilder(ref, NoCallback, NoCallback, 1)

entry(ref) == EntryBuilder(ref, NoCallback, NoCallback, 0)

\* The callers in P have created one entry each, configured as one of B.
Start(P, B) ==
    /\ store \in InitialStores
    /\ nextId = IF store[1].tag = "doc" THEN 2 ELSE 1
    /\ pc = [p \in P |-> "Pending"]
    /\ builder \in [P -> B]
    /\ clock = 0
    /\ lookedAt = [p \in P |-> 0]
    /\ committedAt = [p \in P |-> 0]
    /\ args = [p \in P |-> Taken]
    /\ retry_limit = [p \in P |-> 0]
    /\ existing = [p \in P |-> NoDoc]
    /\ new_document = [p \in P |-> NoDoc]
    /\ header = [p \in P |-> NoHeader]
    /\ result = [p \in P |-> Unresolved]
    /\ log = [p \in P |-> <<>>]
    /\ updateCalls = [p \in P |-> 0]
    /\ insertCalls = [p \in P |-> 0]
    /\ loaded = [p \in P |-> NoDoc]
    /\ lastWrite = [p \in P |-> NoWrite]
    /\ lastError = [p \in P |-> NoError]
    /\ committed = [p \in P |-> NoDoc]
    /\ envOps = 0
    /\ faults = 0

\* No numeric operation has been built.
NumericsIdle ==
    /\ kv = [c \in Cells |-> 0]
    /\ kvInitial = 0
    /\ numeric = <<>>
    /\ allowed = <<>>
    /\ sent = <<>>
    /\ served = <<>>
    /\ response = <<>>
    /\ outcome = <<>>

\* No document has been made, pushed or fetched.
DocumentsIdle ==
    /\ document = NoDoc
    /\ successor = NoDoc
    /\ emitted = NoDoc
    /\ pushes = <<>>
    /\ fetched = NoDoc

\* No entry has been created and the collection is empty.
EntriesIdle ==
    /\ Start({}, {})
    /\ store = [i \in Ids |-> NoDoc]

Init ==
    /\ Start(Caller, {entry(ref) : ref \in References})
    /\ NumericsIdle
    /\ DocumentsIdle

\* Every racer has configured an entry for alice; the insert callbacks
\* make alice's default document.  A racer meets fewer conflicts than there
\* are racers, so the budgets are none, one and the largest.
RaceBuilders ==
    {EntryBuilder(NameRef("alice"), ins, upd, n) :
        ins \in {NoCallback, [tag |-> "some", value |-> AliceAtStart]},
        upd \in {NoCallback, IncRank},
        n \in {0, 1, MaxRetry}}

InitRace ==
    /\ Start(Racers, RaceBuilders)
    /\ NumericsIdle
    /\ DocumentsIdle

\* ------------------------------------------------------ the Entry builder
running == <<args, retry_limit, existing, new_document, header, result>>

\* The EntryBuilder or_insert_with rebuilds: the insert callback replaced.
EntryBuilder_or_insert_with(b, cb) ==
    [tag |-> b.tag, name |-> b.name, insert |-> cb, update |-> b.update,
     retry_limit |-> b.retry_limit]

\* update_with rebuilding the builder without the insert callback it had.
EntryBuilder_update_with_drops_insert(b, cb) ==
    [tag |-> b.tag, name |-> b.name, insert |-> NoCallback, update |-> cb,
     retry_limit |-> b.retry_limit]

\* The EntryBuilder update_with rebuilds: the update callback replaced.
EntryBuilder_update_with(b, cb) ==
    [tag |-> b.tag, name |-> b.name, insert |-> b.insert, update |-> cb,
     retry_limit |-> b.retry_limit]

\* The EntryBuilder after retry_limit: pending().retry_limit = attempts.
EntryBuilder_retry_limit(b, attempts) == [b EXCEPT !.retry_limit = attempts]

\* Entry::or_insert_with
or_insert_with(p, cb) ==
    /\ UNCHANGED apart
    /\ pc[p] = "Pending"
    /\ builder' = [builder EXCEPT ![p] = EntryBuilder_or_insert_with(@, cb)]
    /\ UNCHANGED <<server, pc, running, history, envOps, faults>>

\* Entry::update_with
update_with(p, cb) ==
    /\ UNCHANGED apart
    /\ pc[p] = "Pending"
    /\ builder' = [builder EXCEPT ![p] = EntryBuilder_update_with(@, cb)]
    /\ UNCHANGED <<server, pc, running, history, envOps, faults>>

\* Entry::retry_limit
set_retry_limit(p, attempts) ==
    /\ UNCHANGED apart
    /\ pc[p] = "Pending"
    /\ builder' = [builder EXCEPT ![p] = EntryBuilder_retry_limit(@, attempts)]
    /\ UNCHANGED <<server, pc, running, history, envOps, faults>>

\* The connection calls an execution may have outstanding.
ConnectionCalls == {"lookup", "update", "reload", "push"}

\* poll starting execute() again on an entry that is already executing.
poll_restarts(p) ==
    /\ UNCHANGED apart
    /\ IF pc[p] = "Pending"
       THEN /\ builder[p].tag = "some"
            /\ builder' = [builder EXCEPT ![p] = Taken]
            /\ args' = [args EXCEPT ![p] = builder[p]]
            /\ retry_limit' = [retry_limit EXCEPT ![p] = builder[p].retry_limit]
            /\ pc' = [pc EXCEPT ![p] = "lookup"]
            /\ UNCHANGED <<server, existing, new_document, header, result,
                           history, envOps, faults>>
       ELSE /\ pc[p] \in ConnectionCalls
            /\ pc' = [pc EXCEPT ![p] = "lookup"]
            /\ UNCHANGED <<server, builder, running, history, envOps, faults>>

\* Future::poll of an Entry.  The first poll takes the builder and runs
\* execute() up to its first await, the lookup.  A poll of an executing
\* entry polls the future of execute(), which stays where it is while its
\* connection call is outstanding.
poll(p) ==
    /\ UNCHANGED apart
    /\ IF pc[p] = "Pending"
       THEN /\ builder[p].tag = "some"
            /\ builder' = [builder EXCEPT ![p] = Taken]
            /\ args' = [args EXCEPT ![p] = builder[p]]
            /\ retry_limit' = [retry_limit EXCEPT ![p] = builder[p].retry_limit]
            /\ pc' = [pc EXCEPT ![p] = "lookup"]
            /\ UNCHANGED <<server, existing, new_document, header, result,
                           history, envOps, faults>>
       ELSE /\ pc[p] \in ConnectionCalls
            /\ UNCHANGED <<server, pc, builder, running, history, envOps, faults>>

\* ------------------------------------------------------- Entry::execute
\* The local state execute() is left in when it next awaits or returns:
\* where it is, its variables, and the callbacks it invoked on the way.
Local(at, limit, ex, new, hdr, res, upd, ins) ==
    [pc |-> at, retry_limit |-> limit, existing |-> ex, new_document |-> new,
     header |-> hdr, result |-> res, updated |-> upd, inserted |-> ins]

\* The answer to a connection call: out is "ok", "conflict" or "error"; doc
\* is the document of a load, header the header of a write or of a conflict,
\* error the error other than a conflict.
Answer(o, d, h, e) == [out |-> o, doc |-> d, header |-> h, error |-> e]

\* update.call(&mut existing.contents)
apply_update(cb, doc) == [doc EXCEPT !.contents = update_call(cb, @)]

\* CollectionDocument::update, on success: the document takes the new header.
with_header(doc, hdr) == [doc EXCEPT !.header = hdr]

\* after_lookup with a found document saved back when there is no callback.
after_lookup_saves_unchanged(a, limit, resp) ==
    IF resp.out = "error"
    THEN Local("Resolved", limit, NoDoc, NoDoc, NoHeader, Err(resp.error), 0, 0)
    ELSE IF resp.doc.tag = "doc"
    THEN IF a.update.tag = "some"
         THEN Local("update", limit, apply_update(a.update, resp.doc), NoDoc,
                    NoHeader, Unresolved, 1, 0)
         ELSE Local("update", limit, resp.doc, NoDoc, NoHeader, Unresolved, 0, 0)
    ELSE IF a.insert.tag = "some"
         THEN Local("push", limit, NoDoc, insert_call(a.insert), NoHeader,
                    Unresolved, 0, 1)
         ELSE Local("Resolved", limit, NoDoc, NoDoc, NoHeader, OkNone, 0, 0)

\* after_lookup with the update callback applied to the inserted value too.
after_lookup_updates_inserted(a, limit, resp) ==
    IF resp.out = "error"
    THEN Local("Resolved", limit, NoDoc, NoDoc, NoHeader, Err(resp.error), 0, 0)
    ELSE IF resp.doc.tag = "doc"
    THEN IF a.update.tag = "some"
         THEN Local("update", limit, apply_update(a.update, resp.doc), NoDoc,
                    NoHeader, Unresolved, 1, 0)
         ELSE Local("Resolved", limit, resp.doc, NoDoc, NoHeader,
                    OkSome(resp.doc), 0, 0)
    ELSE IF a.insert.tag = "some"
         THEN IF a.update.tag = "some"
              THEN Local("push", limit, NoDoc,
                         update_call(a.update, insert_call(a.insert)), NoHeader,
                         Unresolved, 1, 1)
              ELSE Local("push", limit, NoDoc, insert_call(a.insert), NoHeader,
                         Unresolved, 0, 1)
         ELSE Local("Resolved", limit, NoDoc, NoDoc, NoHeader, OkNone, 0, 0)

\* after_lookup with the insert callback invoked before the lookup is
\* examined.
after_lookup_eager_insert(a, limit, resp) ==
    LET ins == IF a.insert.tag = "some" THEN 1 ELSE 0
        new == IF a.insert.tag = "some" THEN insert_call(a.insert) ELSE NoDoc
    IN  IF resp.out = "error"
        THEN Local("Resolved", limit, NoDoc, new, NoHeader, Err(resp.error), 0, ins)
        ELSE IF resp.doc.tag = "doc"
        THEN IF a.update.tag = "some"
             THEN Local("update", limit, apply_update(a.update, resp.doc), new,
                        NoHeader, Unresolved, 1, ins)
             ELSE Local("Resolved", limit, resp.doc, new, NoHeader,
                        OkSome(resp.doc), 0, ins)
        ELSE IF a.insert.tag = "some"
             THEN Local("push", limit, NoDoc, new, NoHeader, Unresolved, 0, ins)
             ELSE Local("Resolved", limit, NoDoc, NoDoc, NoHeader, OkNone, 0, 0)

\* after_lookup with a missing document reported as an error when there is
\* nothing to insert.
after_lookup_missing_is_error(a, limit, resp) ==
    IF resp.out = "error"
    THEN Local("Resolved", limit, NoDoc, NoDoc, NoHeader, Err(resp.error), 0, 0)
    ELSE IF resp.doc.tag = "doc"
    THEN IF a.update.tag = "some"
         THEN Local("update", limit, apply_update(a.update, resp.doc), NoDoc,
                    NoHeader, Unresolved, 1, 0)
         ELSE Local("Resolved", limit, resp.doc, NoDoc, NoHeader,
                    OkSome(resp.doc), 0, 0)
    ELSE IF a.insert.tag = "some"
         THEN Local("push", limit, NoDoc, insert_call(a.insert), NoHeader,
                    Unresolved, 0, 1)
         ELSE Local("Resolved", limit, NoDoc, NoDoc, NoHeader,
                    Err(DocumentNotFound(a.name.id)), 0, 0)

\* From the answer to Col::load(name) to the next await or the return.
after_lookup(a, limit, resp) ==
    IF resp.out = "error"
    THEN Local("Resolved", limit, NoDoc, NoDoc, NoHeader, Err(resp.error), 0, 0)
    ELSE IF resp.doc.tag = "doc"
    THEN IF a.update.tag = "some"
         THEN Local("update", limit, apply_update(a.update, resp.doc), NoDoc,
                    NoHeader, Unresolved, 1, 0)
         ELSE Local("Resolved", limit, resp.doc, NoDoc, NoHeader,
                    OkSome(resp.doc), 0, 0)
    ELSE IF a.insert.tag = "some"
         THEN Local("push", limit, NoDoc, insert_call(a.insert), NoHeader,
                    Unresolved, 0, 1)
         ELSE Local("Resolved", limit, NoDoc, NoDoc, NoHeader, OkNone, 0, 0)

\* after_update with a Conflict taken for an accepted write.
after_update_conflict_swallowed(limit, ex, resp) ==
    IF resp.out = "ok" \/ resp.out = "conflict"
    THEN Local("Resolved", limit, with_header(ex, resp.header), NoDoc, NoHeader,
               OkSome(with_header(ex, resp.header)), 0, 0)
    ELSE Local("Resolved", limit, ex, NoDoc, NoHeader, Err(resp.error), 0, 0)

\* after_update with a reload even when the budget is 0.
after_update_retry_at_zero(limit, ex, resp) ==
    IF resp.out = "ok"
    THEN Local("Resolved", limit, with_header(ex, resp.header), NoDoc, NoHeader,
               OkSome(with_header(ex, resp.header)), 0, 0)
    ELSE IF resp.out = "conflict"
    THEN IF limit >= 0
         THEN Local("reload", IF limit > 0 THEN limit - 1 ELSE 0, ex, NoDoc,
                    resp.header, Unresolved, 0, 0)
         ELSE Local("Resolved", limit, ex, NoDoc, resp.header,
                    Err(DocumentConflict(resp.header)), 0, 0)
    ELSE Local("Resolved", limit, ex, NoDoc, NoHeader, Err(resp.error), 0, 0)

\* after_update with every error retried like a Conflict.
after_update_retry_any_error(limit, ex, resp) ==
    IF resp.out = "ok"
    THEN Local("Resolved", limit, with_header(ex, resp.header), NoDoc, NoHeader,
               OkSome(with_header(ex, resp.header)), 0, 0)
    ELSE IF limit > 0
         THEN Local("reload", limit - 1, ex, NoDoc,
                    IF resp.out = "conflict" THEN resp.header ELSE ex.header,
                    Unresolved, 0, 0)
         ELSE Local("Resolved", limit, ex, NoDoc, resp.header,
                    Err(IF resp.out = "conflict"
                        THEN DocumentConflict(resp.header) ELSE resp.error), 0, 0)

\* after_update with the budget never spent.
after_update_undecremented(limit, ex, resp) ==
    IF resp.out = "ok"
    THEN Local("Resolved", limit, with_header(ex, resp.header), NoDoc, NoHeader,
               OkSome(with_header(ex, resp.header)), 0, 0)
    ELSE IF resp.out = "conflict"
    THEN IF limit > 0
         THEN Local("reload", limit, ex, NoDoc, resp.header, Unresolved, 0, 0)
         ELSE Local("Resolved", limit, ex, NoDoc, resp.header,
                    Err(DocumentConflict(resp.header)), 0, 0)
    ELSE Local("Resolved", limit, ex, NoDoc, NoHeader, Err(resp.error), 0, 0)

\* after_update reloading after every Conflict, whatever budget is left.
after_update_retries_forever(limit, ex, resp) ==
    IF resp.out = "ok"
    THEN Local("Resolved", limit, with_header(ex, resp.header), NoDoc, NoHeader,
               OkSome(with_header(ex, resp.header)), 0, 0)
    ELSE IF resp.out = "conflict"
    THEN Local("reload", limit, ex, NoDoc, resp.header, Unresolved, 0, 0)
    ELSE Local("Resolved", limit, ex, NoDoc, NoHeader, Err(resp.error), 0, 0)

\* after_update spending the budget left on writing again after a write
\* was accepted.
after_update_writes_again(limit, ex, resp) ==
    IF resp.out = "ok"
    THEN IF limit > 0
         THEN Local("update", limit - 1, with_header(ex, resp.header), NoDoc,
                    NoHeader, Unresolved, 0, 0)
         ELSE Local("Resolved", limit, with_header(ex, resp.header), NoDoc, NoHeader,
                    OkSome(with_header(ex, resp.header)), 0, 0)
    ELSE IF resp.out = "conflict"
    THEN IF limit > 0
         THEN Local("reload", limit - 1, ex, NoDoc, resp.header, Unresolved, 0, 0)
         ELSE Local("Resolved", limit, ex, NoDoc, resp.header,
                    Err(DocumentConflict(resp.header)), 0, 0)
    ELSE Local("Resolved", limit, ex, NoDoc, NoHeader, Err(resp.error), 0, 0)

\* after_update writing again at once after a Conflict, with the header of
\* the Conflict and no reload.
after_update_rewrites_at_once(limit, ex, resp) ==
    IF resp.out = "ok"
    THEN Local("Resolved", limit, with_header(ex, resp.header), NoDoc, NoHeader,
               OkSome(with_header(ex, resp.header)), 0, 0)
    ELSE IF resp.out = "conflict"
    THEN IF limit > 0
         THEN Local("update", limit - 1, with_header(ex, resp.header), NoDoc,
                    resp.header, Unresolved, 0, 0)
         ELSE Local("Resolved", limit, ex, NoDoc, resp.header,
                    Err(DocumentConflict(resp.header)), 0, 0)
    ELSE Local("Resolved", limit, ex, NoDoc, NoHeader, Err(resp.error), 0, 0)

\* From the answer to existing.update(connection) to the next await or the
\* return.
after_update(limit, ex, resp) ==
    IF resp.out = "ok"
    THEN Local("Resolved", limit, with_header(ex, resp.header), NoDoc, NoHeader,
               OkSome(with_header(ex, resp.header)), 0, 0)
    ELSE IF resp.out = "conflict"
    THEN IF limit > 0
         THEN Local("reload", limit - 1, ex, NoDoc, resp.header, Unresolved, 0, 0)
         ELSE Local("Resolved", limit, ex, NoDoc, resp.header,
                    Err(DocumentConflict(resp.header)), 0, 0)
    ELSE Local("Resolved", limit, ex, NoDoc, NoHeader, Err(resp.error), 0, 0)

\* after_reload writing the reloaded contents under the revision the
\* document already had before the reload.
after_reload_keeps_revision(a, limit, ex, hdr, resp) ==
    IF resp.out = "error"
    THEN Local("Resolved", limit, ex, NoDoc, hdr, Err(resp.error), 0, 0)
    ELSE IF resp.doc.tag = "doc"
    THEN Local("update", limit,
               with_header(apply_update(a.update, resp.doc), ex.header),
               NoDoc, hdr, Unresolved, 1, 0)
    ELSE Local("Resolved", limit, ex, NoDoc, hdr, OkNone, 0, 0)

\* after_reload with the reloaded revision put on the contents already
\* mutated, which are mutated again.
after_reload_keeps_contents(a, limit, ex, hdr, resp) ==
    IF resp.out = "error"
    THEN Local("Resolved", limit, ex, NoDoc, hdr, Err(resp.error), 0, 0)
    ELSE IF resp.doc.tag = "doc"
    THEN Local("update", limit,
               apply_update(a.update, with_header(ex, resp.doc.header)), NoDoc, hdr,
               Unresolved, 1, 0)
    ELSE Local("Resolved", limit, ex, NoDoc, hdr, OkNone, 0, 0)

\* after_reload with a document that is gone reported as an error.
after_reload_missing_is_error(a, limit, ex, hdr, resp) ==
    IF resp.out = "error"
    THEN Local("Resolved", limit, ex, NoDoc, hdr, Err(resp.error), 0, 0)
    ELSE IF resp.doc.tag = "doc"
    THEN Local("update", limit, apply_update(a.update, resp.doc), NoDoc, hdr,
               Unresolved, 1, 0)
    ELSE Local("Resolved", limit, ex, NoDoc, hdr, Err(DocumentNotFound(hdr.id)), 0, 0)

\* after_reload falling back to the insert callback when the document is
\* gone, as the initial lookup does.
after_reload_reinserts(a, limit, ex, hdr, resp) ==
    IF resp.out = "error"
    THEN Local("Resolved", limit, ex, NoDoc, hdr, Err(resp.error), 0, 0)
    ELSE IF resp.doc.tag = "doc"
    THEN Local("update", limit, apply_update(a.update, resp.doc), NoDoc, hdr,
               Unresolved, 1, 0)
    ELSE IF a.insert.tag = "some"
    THEN Local("push", limit, NoDoc, insert_call(a.insert), hdr, Unresolved, 0, 1)
    ELSE Local("Resolved", limit, ex, NoDoc, hdr, OkNone, 0, 0)

\* From the answer to Col::load(header.id) to the next await or the return.
after_reload(a, limit, ex, hdr, resp) ==
    IF resp.out = "error"
    THEN Local("Resolved", limit, ex, NoDoc, hdr, Err(resp.error), 0, 0)
    ELSE IF resp.doc.tag = "doc"
    THEN Local("update", limit, apply_update(a.update, resp.doc), NoDoc, hdr,
               Unresolved, 1, 0)
    ELSE Local("Resolved", limit, ex, NoDoc, hdr, OkNone, 0, 0)

\* after_push with the returned document given the header of a new local
\* document instead of the header the connection returned.
after_push_local_header(limit, new, resp) ==
    IF resp.out = "ok"
    THEN Local("Resolved", limit, NoDoc, new, NoHeader,
               OkSome(CollectionDocument(0, Revision_initial(serialize(new)), new)),
               0, 0)
    ELSE Local("Resolved", limit, NoDoc, new, NoHeader, Err(resp.error), 0, 0)

\* after_push reporting the document as created when the push failed.
after_push_failure_swallowed(limit, new, resp) ==
    Local("Resolved", limit, NoDoc, new, NoHeader,
          OkSome(CollectionDocument(resp.header.id, resp.header.revision, new)),
          0, 0)

\* SerializedCollection::push and the return of execute().
after_push(limit, new, resp) ==
    IF resp.out = "ok"
    THEN Local("Resolved", limit, NoDoc, new, NoHeader,
               OkSome(CollectionDocument(resp.header.id, resp.header.revision, new)),
               0, 0)
    ELSE Local("Resolved", limit, NoDoc, new, NoHeader, Err(resp.error), 0, 0)

\* execute() moves entry p to local state l.
Resume(p, l) ==
    /\ pc' = [pc EXCEPT ![p] = l.pc]
    /\ retry_limit' = [retry_limit EXCEPT ![p] = l.retry_limit]
    /\ existing' = [existing EXCEPT ![p] = l.existing]
    /\ new_document' = [new_document EXCEPT ![p] = l.new_document]
    /\ header' = [header EXCEPT ![p] = l.header]
    /\ result' = [result EXCEPT ![p] = l.result]
    /\ updateCalls' = [updateCalls EXCEPT ![p] = @ + l.updated]
    /\ insertCalls' = [insertCalls EXCEPT ![p] = @ + l.inserted]

\* The document a load returned, as execute() receives it.
Loaded(i) == IF i = 0 THEN NoDoc ELSE try_from(i)

\* The connection call of entry p fails with an error of the transport; the
\* server does nothing.
Failing(p, call) ==
    /\ UNCHANGED apart
    /\ faults < MaxFaults
    /\ faults' = faults + 1
    /\ log' = [log EXCEPT ![p] = Append(@, Call(call, "error"))]
    /\ lastError' = [lastError EXCEPT ![p] = Transport]
    /\ UNCHANGED <<server, builder, args, loaded, committed, lookedAt,
                   committedAt, envOps>>

\* Col::load(name, connection) answers.
Lookup(p) ==
    /\ UNCHANGED apart
    /\ pc[p] = "lookup"
    /\ LET doc == Loaded(load_document(args[p].name))
       IN  /\ Resume(p, after_lookup(args[p], retry_limit[p],
                                     Answer("ok", doc, NoHeader, NoError)))
           /\ log' = [log EXCEPT ![p] = Append(@, Call("lookup", doc.tag))]
           /\ loaded' = [loaded EXCEPT ![p] = doc]
           /\ lookedAt' = [lookedAt EXCEPT ![p] = clock]
    /\ UNCHANGED <<server, builder, args, lastWrite, lastError, committed,
                   committedAt, envOps, faults>>

LookupFails(p) ==
    /\ pc[p] = "lookup"
    /\ Failing(p, "lookup")
    /\ Resume(p, after_lookup(args[p], retry_limit[p],
                              Answer("error", NoDoc, NoHeader, Transport)))
    /\ UNCHANGED lastWrite

\* existing.update(connection) answers.
Update(p) ==
    /\ UNCHANGED apart
    /\ pc[p] = "update"
    /\ LET r    == ServerUpdate(existing[p])
           out  == IF r.out = "notfound" THEN "error" ELSE r.out
           err  == IF r.out = "notfound"
                   THEN DocumentNotFound(existing[p].header.id) ELSE NoError
       IN  /\ store' = r.store
           /\ clock' = IF r.store # store THEN clock + 1 ELSE clock
           /\ Resume(p, after_update(retry_limit[p], existing[p],
                                     Answer(out, NoDoc, r.header, err)))
           /\ log' = [log EXCEPT ![p] = Append(@, Call("update", out))]
           /\ lastWrite' = [lastWrite EXCEPT ![p] =
                               [presented |-> existing[p].header, out |-> out,
                                header |-> r.header, changed |-> r.store # store]]
           /\ lastError' = [lastError EXCEPT ![p] = IF out = "error" THEN err ELSE @]
           /\ committed' = [committed EXCEPT ![p] =
                               IF out = "ok"
                               THEN CollectionDocument(r.header.id, r.header.revision,
                                        deserialize(r.store[r.header.id].contents))
                               ELSE @]
           /\ committedAt' = [committedAt EXCEPT ![p] =
                                 IF out = "ok" THEN clock' ELSE @]
    /\ UNCHANGED <<nextId, builder, args, loaded, lookedAt, envOps, faults>>

UpdateFails(p) ==
    /\ pc[p] = "update"
    /\ Failing(p, "update")
    /\ Resume(p, after_update(retry_limit[p], existing[p],
                              Answer("error", NoDoc, NoHeader, Transport)))
    /\ lastWrite' = [lastWrite EXCEPT ![p] =
                        [presented |-> existing[p].header, out |-> "error",
                         header |-> NoHeader, changed |-> FALSE]]

\* Col::load(header.id, connection) answers.
Reload(p) ==
    /\ UNCHANGED apart
    /\ pc[p] = "reload"
    /\ LET doc == Loaded(load_document(IdRef(header[p].id)))
       IN  /\ Resume(p, after_reload(args[p], retry_limit[p], existing[p], header[p],
                                     Answer("ok", doc, NoHeader, NoError)))
           /\ log' = [log EXCEPT ![p] = Append(@, Call("reload", doc.tag))]
           /\ loaded' = [loaded EXCEPT ![p] = doc]
    /\ UNCHANGED <<server, builder, args, lastWrite, lastError, committed,
                   lookedAt, committedAt, envOps, faults>>

ReloadFails(p) ==
    /\ pc[p] = "reload"
    /\ Failing(p, "reload")
    /\ Resume(p, after_reload(args[p], retry_limit[p], existing[p], header[p],
                              Answer("error", NoDoc, NoHeader, Transport)))
    /\ UNCHANGED lastWrite

\* Col::push(new_document, connection) answers.
Push(p) ==
    /\ UNCHANGED apart
    /\ pc[p] = "push"
    /\ nextId <= MaxDocs
    /\ LET r == ServerPush(new_document[p])
       IN  /\ store' = r.store
           /\ nextId' = nextId + 1
           /\ clock' = clock + 1
           /\ Resume(p, after_push(retry_limit[p], new_document[p],
                                   Answer("ok", NoDoc, r.header, NoError)))
           /\ log' = [log EXCEPT ![p] = Append(@, Call("push", "ok"))]
           /\ lastWrite' = [lastWrite EXCEPT ![p] =
                               [presented |-> NoHeader, out |-> "ok",
                                header |-> r.header, changed |-> TRUE]]
           /\ committed' = [committed EXCEPT ![p] =
                               CollectionDocument(r.header.id, r.header.revision,
                                   deserialize(r.store[r.header.id].contents))]
           /\ committedAt' = [committedAt EXCEPT ![p] = clock + 1]
    /\ UNCHANGED <<builder, args, loaded, lastError, lookedAt, envOps, faults>>

PushFails(p) ==
    /\ pc[p] = "push"
    /\ Failing(p, "push")
    /\ Resume(p, after_push(retry_limit[p], new_document[p],
                            Answer("error", NoDoc, NoHeader, Transport)))
    /\ lastWrite' = [lastWrite EXCEPT ![p] =
                        [presented |-> NoHeader, out |-> "error",
                         header |-> NoHeader, changed |-> FALSE]]

\* ------------------------------------------------------- the other clients
\* Another client updates document i (it read the current revision).
OtherUpdate(i) ==
    /\ UNCHANGED apart
    /\ envOps < MaxEnvOps
    /\ store[i].tag = "doc"
    /\ LET c == deserialize(store[i].contents)
           d == CollectionDocument(i, store[i].revision, [c EXCEPT !.rank = @ + 2])
       IN  store' = ServerUpdate(d).store
    /\ clock' = clock + 1
    /\ envOps' = envOps + 1
    /\ UNCHANGED <<nextId, pc, builder, running, history, faults>>

\* Another client deletes document i.
OtherDelete(i) ==
    /\ UNCHANGED apart
    /\ envOps < MaxEnvOps
    /\ store[i].tag = "doc"
    /\ store' = [store EXCEPT ![i] = NoDoc]
    /\ clock' = clock + 1
    /\ envOps' = envOps + 1
    /\ UNCHANGED <<nextId, pc, builder, running, history, faults>>

\* --------------------------------------------------------- dropped futures
\* The caller drops the future of p at the await it is suspended at.  The
\* request of the outstanding call has been sent: it is lost, or the server
\* still executes it, and nobody receives the answer.
Abandon(p) ==
    /\ UNCHANGED apart
    /\ pc[p] \in ConnectionCalls
    /\ pc' = [pc EXCEPT ![p] = "Dropped"]
    /\ \/ /\ log' = [log EXCEPT ![p] = Append(@, Call(pc[p], "dropped"))]
          /\ UNCHANGED <<server, committed, committedAt>>
       \/ /\ pc[p] = "update"
          /\ LET r == ServerUpdate(existing[p])
             IN  /\ r.out = "ok"
                 /\ store' = r.store
                 /\ clock' = IF r.store # store THEN clock + 1 ELSE clock
                 /\ committed' = [committed EXCEPT ![p] =
                                     CollectionDocument(r.header.id, r.header.revision,
                                         deserialize(r.store[r.header.id].contents))]
                 /\ committedAt' = [committedAt EXCEPT ![p] = clock']
          /\ log' = [log EXCEPT ![p] = Append(@, Call("update", "unheard"))]
          /\ UNCHANGED nextId
       \/ /\ pc[p] = "push"
          /\ nextId <= MaxDocs
          /\ LET r == ServerPush(new_document[p])
             IN  /\ store' = r.store
                 /\ committed' = [committed EXCEPT ![p] =
                                     CollectionDocument(r.header.id, r.header.revision,
                                         deserialize(r.store[r.header.id].contents))]
          /\ nextId' = nextId + 1
          /\ clock' = clock + 1
          /\ committedAt' = [committedAt EXCEPT ![p] = clock + 1]
          /\ log' = [log EXCEPT ![p] = Append(@, Call("push", "unheard"))]
    /\ UNCHANGED <<builder, running, updateCalls, insertCalls, loaded, lastWrite,
                   lastError, lookedAt, envOps, faults>>

\* or_insert_with, update_with or retry_limit on an entry that is already
\* executing: the method reaches unreachable!() before it changes anything,
\* and the panic drops the entry it had taken by value.
modify_executing(p) == Abandon(p)

\* ------------------------------------------------------------------- Next
\* The steps of the callers' futures.
Execute ==
    \/ \E p \in DOMAIN pc : poll(p)
    \/ \E p \in DOMAIN pc : Lookup(p)
    \/ \E p \in DOMAIN pc : Update(p)
    \/ \E p \in DOMAIN pc : Reload(p)
    \/ \E p \in DOMAIN pc : Push(p)

Next ==
    \/ \E p \in DOMAIN pc, cb \in InsertCallbacks : or_insert_with(p, cb)
    \/ \E p \in DOMAIN pc : update_with(p, IncRank)
    \/ \E p \in DOMAIN pc, n \in 0 .. MaxRetry : set_retry_limit(p, n)
    \/ Execute
    \/ \E p \in DOMAIN pc : LookupFails(p)
    \/ \E p \in DOMAIN pc : UpdateFails(p)
    \/ \E p \in DOMAIN pc : ReloadFails(p)
    \/ \E p \in DOMAIN pc : PushFails(p)
    \/ \E i \in Ids : OtherUpdate(i)
    \/ \E i \in Ids : OtherDelete(i)

Spec == Init /\ [][Next]_vars

NextRace == Execute

SpecRace == InitRace /\ [][NextRace]_vars

NextCancel ==
    \/ Next
    \/ \E p \in DOMAIN pc : Abandon(p)

\* The caller of Spec may drop its future at any await.
SpecCancel == Init /\ [][NextCancel]_vars

\* The caller keeps polling its future (it awaits it), and every connection
\* call eventually returns, with an answer or with an error.
Returning(p) ==
    /\ WF_vars(poll(p))
    /\ WF_vars(Lookup(p) \/ LookupFails(p))
    /\ WF_vars(Update(p) \/ UpdateFails(p))
    /\ WF_vars(Reload(p) \/ ReloadFails(p))
    /\ WF_vars(Push(p) \/ PushFails(p))

\* Spec with an awaited future and a connection that answers; the other
\* clients write whenever they like.
SpecReturning == Init /\ [][Next]_vars /\ \A p \in Caller : Returning(p)

\* Every racer updates alice, who exists, with a budget of at least
\* NumRacers - 1.
ContendBuilders ==
    {EntryBuilder(ref, NoCallback, IncRank, n) :
        ref \in {NameRef("alice"), IdRef(1)},
        n \in {NumRacers - 1, MaxRetry}}

InitContend ==
    /\ Start(Racers, ContendBuilders)
    /\ store[1].tag = "doc"
    /\ NumericsIdle
    /\ DocumentsIdle

NextContend ==
    \/ \E p \in DOMAIN pc : poll(p)
    \/ \E p \in DOMAIN pc : Lookup(p)
    \/ \E p \in DOMAIN pc : Update(p)
    \/ \E p \in DOMAIN pc : Reload(p)

\* The racers are scheduled fairly: each future keeps being polled and each
\* of its calls is answered.  A future has one step to take at a time.
Scheduled(p) == WF_vars(poll(p) \/ Lookup(p) \/ Update(p) \/ Reload(p))

\* NumRacers executions with mutators contend for one existing document;
\* nothing else writes or deletes it.
SpecContend ==
    InitContend /\ [][NextContend]_vars /\ \A p \in Racers : Scheduled(p)

\* ------------------------------------------------------- racing inserts
\* The error of a server whose by-name view is declared unique, for a push
\* under a name a stored document carries.
NameTaken ==
    [kind |-> "UniqueKeyViolation", collection |-> "MyCollection",
     header |-> NoHeader]

\* Col::push(new_document, connection) refused: the schema declares the
\* by-name view unique and the name is taken.  The server writes nothing.
PushRefused(p) ==
    /\ UNCHANGED apart
    /\ pc[p] = "push"
    /\ MatchingIds(new_document[p].name) # {}
    /\ Resume(p, after_push(retry_limit[p], new_document[p],
                            Answer("error", NoDoc, NoHeader, NameTaken)))
    /\ log' = [log EXCEPT ![p] = Append(@, Call("push", "error"))]
    /\ lastWrite' = [lastWrite EXCEPT ![p] =
                        [presented |-> NoHeader, out |-> "error",
                         header |-> NoHeader, changed |-> FALSE]]
    /\ lastError' = [lastError EXCEPT ![p] = NameTaken]
    /\ UNCHANGED <<server, builder, args, loaded, committed, lookedAt,
                   committedAt, envOps, faults>>

\* Every racer inserts a document for alice when alice is absent, with the
\* rank it chooses, and some also update her when she is there.
InsertBuilders ==
    {EntryBuilder(NameRef("alice"),
                  [tag |-> "some", value |-> Contents("alice", r)], upd, 0) :
        r \in 0 .. 1, upd \in {NoCallback, IncRank}}

InitInsertRace ==
    /\ Start(Racers, InsertBuilders)
    /\ store = [i \in Ids |-> NoDoc]
    /\ NumericsIdle
    /\ DocumentsIdle

NextInsertRace ==
    \/ \E p \in DOMAIN pc : poll(p)
    \/ \E p \in DOMAIN pc : Lookup(p)
    \/ \E p \in DOMAIN pc : Push(p)
    \/ \E p \in DOMAIN pc : PushRefused(p)
    \/ \E p \in DOMAIN pc : Update(p)

\* NumRacers executions with insert callbacks race for the absent name
\* alice.  The server accepts every push, or refuses a push under a taken
\* name as one with a unique by-name view does.
SpecInsertRace == InitInsertRace /\ [][NextInsertRace]_vars

\* ------------------------------------------ the numeric key-value operation
\* The entries and the collection, which the numeric operations never touch.
entries == <<server, pc, builder, running, history, envOps, faults>>

\* The numeric type kept under the keys: unsigned, Bits wide.
Modulus  == 2 ^ Bits
MaxValue == Modulus - 1

\* Numeric, Value and Output of the key-value store.
UnsignedInteger(n) == [kind |-> "UnsignedInteger", value |-> n]
Float(n)           == [kind |-> "Float", value |-> n]
NoValue            == [kind |-> "None", numeric |-> UnsignedInteger(0)]
BytesValue         == [kind |-> "Bytes", numeric |-> UnsignedInteger(0)]
NumericValue(n)    == [kind |-> "Numeric", numeric |-> n]

NoResponse     == [tag |-> "none", value |-> NoValue, error |-> NoError]
OutputValue(v) == [tag |-> "Value", value |-> v, error |-> NoError]
OutputStatus   == [tag |-> "Status", value |-> NoValue, error |-> NoError]
Failure(e)     == [tag |-> "Error", value |-> NoValue, error |-> e]

\* An error of the database behind the connection.
Database == [kind |-> "Database", collection |-> "", header |-> NoHeader]

\* Outputs that are no numeric value of the requested type.
NotNumeric   == {OutputValue(NoValue), OutputValue(BytesValue), OutputStatus}
Incompatible == {OutputValue(NumericValue(Float(1))),
                 OutputValue(NumericValue(UnsignedInteger(MaxValue + 1)))}

\* Result<V, Error> of the operation, or the panic that ends the call.
OkValue(v) == [tag |-> "Ok", value |-> v]
Panic(msg) == [tag |-> "panic", message |-> msg]

\* V::try_from(Numeric), V being the unsigned type of Bits bits.
V_try_from(n) ==
    IF n.kind = "UnsignedInteger" /\ n.value \in 0 .. MaxValue
    THEN [tag |-> "Ok", value |-> n.value]
    ELSE [tag |-> "Err", value |-> 0]

\* Command::Increment, Command::Decrement and KeyOperation
Increment(amount, saturating) ==
    [tag |-> "Increment", amount |-> amount, saturating |-> saturating]
Decrement(amount, saturating) ==
    [tag |-> "Decrement", amount |-> amount, saturating |-> saturating]
KeyOperation(namespace, key, command) ==
    [namespace |-> namespace, key |-> key, command |-> command]

\* The options a builder holds until it executes.
Options(namespace, key, increment, amount, saturating) ==
    [tag |-> "some", namespace |-> namespace, key |-> key,
     increment |-> increment, amount |-> amount, saturating |-> saturating]
TakenOptions ==
    [tag |-> "none", namespace |-> NoNamespace, key |-> "",
     increment |-> FALSE, amount |-> UnsignedInteger(0), saturating |-> FALSE]

\* Builder::new with overflow allowed from the start.
Builder_new_overflowing(namespace, increment, key, amount) ==
    [mode |-> "blocking", state |-> "Built",
     options |-> Options(namespace, key, increment, amount, FALSE)]

\* Builder::new
Builder_new(namespace, increment, key, amount) ==
    [mode |-> "blocking", state |-> "Built",
     options |-> Options(namespace, key, increment, amount, TRUE)]

\* AsyncBuilder::new
AsyncBuilder_new(namespace, increment, key, amount) ==
    [mode |-> "async", state |-> "Pending",
     options |-> Options(namespace, key, increment, amount, TRUE)]

\* Builder::allow_overflow
Builder_allow_overflow(b) == [b EXCEPT !.options.saturating = FALSE]

\* AsyncBuilder::allow_overflow that leaves the options as they are.
AsyncBuilder_allow_overflow_ignored(b) == b

\* AsyncBuilder::allow_overflow, through options()
AsyncBuilder_allow_overflow(b) == [b EXCEPT !.options.saturating = FALSE]

\* Builder_operation with the direction reversed.
Builder_operation_reversed(o) ==
    KeyOperation(o.namespace, o.key,
                 IF o.increment
                 THEN Decrement(o.amount, o.saturating)
                 ELSE Increment(o.amount, o.saturating))

\* Builder_operation that drops the amount.
Builder_operation_without_amount(o) ==
    KeyOperation(o.namespace, o.key,
                 IF o.increment
                 THEN Increment(UnsignedInteger(0), o.saturating)
                 ELSE Decrement(UnsignedInteger(0), o.saturating))

\* The KeyOperation Builder::execute sends.
Builder_operation(o) ==
    KeyOperation(o.namespace, o.key,
                 IF o.increment
                 THEN Increment(o.amount, o.saturating)
                 ELSE Decrement(o.amount, o.saturating))

\* AsyncBuilder_operation that always asks for saturation.
AsyncBuilder_operation_saturating(o) ==
    KeyOperation(o.namespace, o.key,
                 IF o.increment
                 THEN Increment(o.amount, TRUE)
                 ELSE Decrement(o.amount, TRUE))

\* The KeyOperation the future of AsyncBuilder sends.
AsyncBuilder_operation(o) ==
    KeyOperation(o.namespace, o.key,
                 IF o.increment
                 THEN Increment(o.amount, o.saturating)
                 ELSE Decrement(o.amount, o.saturating))

\* An error of the conversion, for a caller that would get it back.
IncompatibleType ==
    [kind |-> "IncompatibleType", collection |-> "", header |-> NoHeader]

\* Builder_result with a response of the wrong type handed back as an error.
Builder_result_recoverable(resp) ==
    IF resp.tag = "Error"
    THEN Err(resp.error)
    ELSE IF resp.tag = "Value" /\ resp.value.kind = "Numeric"
    THEN IF V_try_from(resp.value.numeric).tag = "Ok"
         THEN OkValue(V_try_from(resp.value.numeric).value)
         ELSE Err(IncompatibleType)
    ELSE Err(IncompatibleType)

\* Builder::execute from the return of execute_key_operation on.
Builder_result(resp) ==
    IF resp.tag = "Error"
    THEN Err(resp.error)
    ELSE IF resp.tag = "Value" /\ resp.value.kind = "Numeric"
    THEN IF V_try_from(resp.value.numeric).tag = "Ok"
         THEN OkValue(V_try_from(resp.value.numeric).value)
         ELSE Panic("server should send back identical type")
    ELSE Panic("Unexpected result from key value operation")

\* The future of AsyncBuilder from the return of execute_key_operation on.
AsyncBuilder_result(resp) ==
    IF resp.tag = "Error"
    THEN Err(resp.error)
    ELSE IF resp.tag = "Value" /\ resp.value.kind = "Numeric"
    THEN IF V_try_from(resp.value.numeric).tag = "Ok"
         THEN OkValue(V_try_from(resp.value.numeric).value)
         ELSE Panic("server should send back identical type")
    ELSE Panic("Unexpected result from key value operation")

\* Saturating and wrapping arithmetic of the numeric type.
Saturate(n) == IF n > MaxValue THEN MaxValue ELSE IF n < 0 THEN 0 ELSE n
Wrap(n)     == n % Modulus

\* KeyValue::execute_key_operation for Increment and Decrement: one
\* indivisible step of the server.
execute_key_operation(op) ==
    LET cell == <<op.namespace, op.key>>
        raw  == IF op.command.tag = "Increment"
                THEN kv[cell] + op.command.amount.value
                ELSE kv[cell] - op.command.amount.value
        new  == IF op.command.saturating THEN Saturate(raw) ELSE Wrap(raw)
    IN  [kv     |-> [kv EXCEPT ![cell] = new],
         before |-> kv[cell],
         after  |-> new,
         output |-> OutputValue(NumericValue(UnsignedInteger(new)))]

NotServed == [done |-> FALSE, before |-> 0, after |-> 0]

\* allow_overflow() on a builder that has not executed yet.
AllowOverflow(p) ==
    /\ numeric[p].options.tag = "some"
    /\ numeric' = [numeric EXCEPT ![p] =
                      IF @.mode = "blocking"
                      THEN Builder_allow_overflow(@)
                      ELSE AsyncBuilder_allow_overflow(@)]
    /\ allowed' = [allowed EXCEPT ![p] = TRUE]
    /\ UNCHANGED <<kv, kvInitial, sent, served, response, outcome>>
    /\ UNCHANGED <<entries, documents>>

\* Builder::execute up to the call of execute_key_operation.
Builder_execute(p) ==
    /\ numeric[p].mode = "blocking"
    /\ numeric[p].state = "Built"
    /\ sent' = [sent EXCEPT ![p] = Append(@, Builder_operation(numeric[p].options))]
    /\ numeric' = [numeric EXCEPT ![p].state = "Calling",
                                  ![p].options = TakenOptions]
    /\ UNCHANGED <<kv, kvInitial, allowed, served, response, outcome>>
    /\ UNCHANGED <<entries, documents>>

\* The first poll of an AsyncBuilder: the options are taken and the future
\* that calls execute_key_operation is started.
\* A poll of an executing AsyncBuilder polls its future, which stays where it
\* is while the call is outstanding.
AsyncBuilder_poll(p) ==
    /\ numeric[p].mode = "async"
    /\ IF numeric[p].state = "Pending"
       THEN /\ numeric[p].options.tag = "some"
            /\ sent' = [sent EXCEPT ![p] =
                           Append(@, AsyncBuilder_operation(numeric[p].options))]
            /\ numeric' = [numeric EXCEPT ![p].state = "Executing",
                                          ![p].options = TakenOptions]
            /\ UNCHANGED <<kv, kvInitial, allowed, served, response, outcome>>
       ELSE /\ numeric[p].state = "Executing"
            /\ UNCHANGED numerics
    /\ UNCHANGED <<entries, documents>>

\* allow_overflow() on an AsyncBuilder that has been polled: options()
\* panics before anything is changed, and the panic drops the builder it had
\* taken by value.  The request of an outstanding call is lost or still
\* executed by the server; nobody receives the answer.
AsyncBuilder_options_panics(p) ==
    /\ numeric[p].mode = "async"
    /\ numeric[p].state \in {"Executing", "Ready"}
    /\ numeric' = [numeric EXCEPT ![p].state = "Dropped"]
    /\ \/ UNCHANGED <<kv, served>>
       \/ /\ numeric[p].state = "Executing"
          /\ LET r == execute_key_operation(sent[p][Len(sent[p])])
             IN  /\ kv' = r.kv
                 /\ served' = [served EXCEPT ![p] =
                                  [done |-> TRUE, before |-> r.before,
                                   after |-> r.after]]
    /\ UNCHANGED <<kvInitial, allowed, sent, response, outcome>>
    /\ UNCHANGED <<entries, documents>>

\* Operation p has its call outstanding.
Awaiting(p) == numeric[p].state \in {"Calling", "Executing"}

\* The caller of p receives resp.
Receive(p, resp) ==
    /\ response' = [response EXCEPT ![p] = resp]
    /\ outcome' = [outcome EXCEPT ![p] =
                      IF numeric[p].mode = "blocking"
                      THEN Builder_result(resp)
                      ELSE AsyncBuilder_result(resp)]
    /\ numeric' = [numeric EXCEPT ![p].state =
                      IF @ = "Calling" THEN "Returned" ELSE "Ready"]

\* The server executes the operation of p and answers.
KeyOperationAnswers(p) ==
    /\ Awaiting(p)
    /\ LET r == execute_key_operation(sent[p][Len(sent[p])])
       IN  /\ kv' = r.kv
           /\ served' = [served EXCEPT ![p] =
                            [done |-> TRUE, before |-> r.before, after |-> r.after]]
           /\ Receive(p, r.output)
    /\ UNCHANGED <<kvInitial, allowed, sent>>
    /\ UNCHANGED <<entries, documents>>

\* execute_key_operation fails with error e; the stored value stays.
KeyOperationFails(p, e) ==
    /\ Awaiting(p)
    /\ Receive(p, Failure(e))
    /\ UNCHANGED <<kv, kvInitial, allowed, sent, served>>
    /\ UNCHANGED <<entries, documents>>

\* The server breaks the protocol: it answers with out, which is no numeric
\* value of the requested type.
KeyOperationMisanswers(p, out) ==
    /\ Awaiting(p)
    /\ Receive(p, out)
    /\ UNCHANGED <<kv, kvInitial, allowed, sent, served>>
    /\ UNCHANGED <<entries, documents>>

\* The operations in P have been built as one of B each, and every key holds
\* the same value, one of V.
NumericStart(P, B, V) ==
    /\ kvInitial \in V
    /\ kv = [c \in Cells |-> kvInitial]
    /\ numeric \in [P -> B]
    /\ allowed = [p \in P |-> FALSE]
    /\ sent = [p \in P |-> <<>>]
    /\ served = [p \in P |-> NotServed]
    /\ response = [p \in P |-> NoResponse]
    /\ outcome = [p \in P |-> Unresolved]

\* Amounts, and stored values near both ends of the type and in its middle.
Amounts == {UnsignedInteger(n) : n \in 0 .. MaxAmount}
InitialValues ==
    {v \in 0 .. MaxValue :
        v <= MaxAmount \/ v >= MaxValue - MaxAmount \/ v = Modulus \div 2}

NumericCaller == {1}
Counters      == 1 .. NumCounters

NewBuilders ==
    {Builder_new(ns, inc, key, amt) :
        ns \in Namespaces, inc \in BOOLEAN, key \in Keys, amt \in Amounts}
    \cup
    {AsyncBuilder_new(ns, inc, key, amt) :
        ns \in Namespaces, inc \in BOOLEAN, key \in Keys, amt \in Amounts}

InitKV ==
    /\ EntriesIdle
    /\ DocumentsIdle
    /\ NumericStart(NumericCaller, NewBuilders, InitialValues)

NextKV ==
    \/ \E p \in DOMAIN numeric : AllowOverflow(p)
    \/ \E p \in DOMAIN numeric : Builder_execute(p)
    \/ \E p \in DOMAIN numeric : AsyncBuilder_poll(p)
    \/ \E p \in DOMAIN numeric : KeyOperationAnswers(p)
    \/ \E p \in DOMAIN numeric, e \in {Transport, Database} : KeyOperationFails(p, e)
    \/ \E p \in DOMAIN numeric, out \in NotNumeric \cup Incompatible :
           KeyOperationMisanswers(p, out)

\* One numeric operation, built in any way, against a server that may fail
\* or break the protocol.
SpecKV == InitKV /\ [][NextKV]_vars

\* Every counter increments the same key by 1.
CounterBuilders ==
    {Builder_new(NoNamespace, TRUE, "hits", UnsignedInteger(1)),
     AsyncBuilder_new(NoNamespace, TRUE, "hits", UnsignedInteger(1))}

InitCounter ==
    /\ EntriesIdle
    /\ DocumentsIdle
    /\ NumericStart(Counters, CounterBuilders, InitialValues)

NextCounter ==
    \/ \E p \in DOMAIN numeric : AllowOverflow(p)
    \/ \E p \in DOMAIN numeric : Builder_execute(p)
    \/ \E p \in DOMAIN numeric : AsyncBuilder_poll(p)
    \/ \E p \in DOMAIN numeric : KeyOperationAnswers(p)

\* NumCounters concurrent increments of one key, in any interleaving,
\* against a server that answers every one.
SpecCounter == InitCounter /\ [][NextCounter]_vars

\* ------------------------------------------------- futures polled and misused
FutureBuilders ==
    {AsyncBuilder_new(NoNamespace, inc, "hits", UnsignedInteger(1)) :
        inc \in BOOLEAN}

InitFuture ==
    /\ Start(Caller, {entry(ref) : ref \in References})
    /\ NumericStart(NumericCaller, FutureBuilders, {0, MaxValue})
    /\ DocumentsIdle

NextFuture ==
    \/ \E p \in DOMAIN pc, cb \in InsertCallbacks : or_insert_with(p, cb)
    \/ \E p \in DOMAIN pc : update_with(p, IncRank)
    \/ \E p \in DOMAIN pc, n \in {0, MaxRetry} : set_retry_limit(p, n)
    \/ \E p \in DOMAIN pc : modify_executing(p)
    \/ Execute
    \/ \E i \in Ids : OtherUpdate(i)
    \/ \E p \in DOMAIN numeric : AllowOverflow(p)
    \/ \E p \in DOMAIN numeric : AsyncBuilder_options_panics(p)
    \/ \E p \in DOMAIN numeric : AsyncBuilder_poll(p)
    \/ \E p \in DOMAIN numeric : KeyOperationAnswers(p)

\* One Entry and one AsyncBuilder, each configured, polled any number of
\* times and possibly modified after the first poll, with another client
\* updating the collection.
SpecFuture == InitFuture /\ [][NextFuture]_vars


\* ------------------------------------------------- documents in the hand
\* Payloads given to Document::new, update_with and push.
Payloads == {Contents(n, r) : n \in Names, r \in 0 .. 1}

\* serde_cbor::to_vec
to_vec(c) == <<c.name, c.rank>>

\* Document { id, revision, contents }
Document(i, rev, bytes) ==
    [tag |-> "doc", id |-> i, revision |-> rev, contents |-> bytes]

\* Document::new; uuid is the value of Uuid::new_v4().
Document_new(c, uuid) == Document(uuid, Revision_initial(to_vec(c)), to_vec(c))

\* Document::update_with giving the successor an id of its own.
Document_update_with_new_id(d, c) ==
    LET nxt == next_revision(d.revision, to_vec(c))
    IN  IF nxt.tag = "none"
        THEN NoDoc
        ELSE Document(d.id + 1, nxt.revision, to_vec(c))

\* Document::update_with minting a revision whatever the contents are.
Document_update_with_always(d, c) ==
    Document(d.id, [id |-> d.revision.id + 1, digest |-> to_vec(c)], to_vec(c))

\* Document::update_with: Some(successor), or None (NoDoc) when the
\* contents are the ones the document has.
Document_update_with(d, c) ==
    LET nxt == next_revision(d.revision, to_vec(c))
    IN  IF nxt.tag = "none"
        THEN NoDoc
        ELSE Document(d.id, nxt.revision, to_vec(c))

\* The unit value and the integers given as keys and values of emissions.
Unit     == [kind |-> "()", n |-> 0]
Integer(n) == [kind |-> "int", n |-> n]
EmitKeys   == {Integer(1)}
EmitValues == {Integer(2)}

\* Map { source, key, value }
Map(source, key, value) ==
    [tag |-> "map", source |-> source, key |-> key, value |-> value]

\* Document::emit_key_and_value
emit_key_and_value(d, key, value) == Map(d.id, key, value)

\* Document::emit
emit(d) == emit_key_and_value(d, Unit, Unit)

\* emit_key with the key emitted as the value.
emit_key_as_value(d, key) == emit_key_and_value(d, Unit, key)

\* Document::emit_key
emit_key(d, key) == emit_key_and_value(d, key, Unit)

\* Document::emit_value
emit_value(d, value) == emit_key_and_value(d, Unit, value)

\* The caller makes a document.
DocumentNew(c, uuid) ==
    /\ document = NoDoc
    /\ document' = Document_new(c, uuid)
    /\ UNCHANGED <<successor, emitted, pushes, fetched>>
    /\ UNCHANGED <<entries, numerics>>

\* The caller asks the document for its successor with contents c.
DocumentUpdateWith(c) ==
    /\ document.tag = "doc"
    /\ successor' = [tag |-> "update_with", given |-> c, original |-> document,
                     result |-> Document_update_with(document, c)]
    /\ UNCHANGED <<document, emitted, pushes, fetched>>
    /\ UNCHANGED <<entries, numerics>>

\* The map function of a view emits from the document.
Emitted(fn, key, value, map) ==
    [tag |-> fn, key |-> key, value |-> value, map |-> map]

Emit ==
    /\ document.tag = "doc"
    /\ emitted' = Emitted("emit", Unit, Unit, emit(document))
    /\ UNCHANGED <<document, successor, pushes, fetched>>
    /\ UNCHANGED <<entries, numerics>>

EmitKey(key) ==
    /\ document.tag = "doc"
    /\ emitted' = Emitted("emit_key", key, Unit, emit_key(document, key))
    /\ UNCHANGED <<document, successor, pushes, fetched>>
    /\ UNCHANGED <<entries, numerics>>

EmitValue(value) ==
    /\ document.tag = "doc"
    /\ emitted' = Emitted("emit_value", Unit, value, emit_value(document, value))
    /\ UNCHANGED <<document, successor, pushes, fetched>>
    /\ UNCHANGED <<entries, numerics>>

EmitKeyAndValue(key, value) ==
    /\ document.tag = "doc"
    /\ emitted' = Emitted("emit_key_and_value", key, value,
                          emit_key_and_value(document, key, value))
    /\ UNCHANGED <<document, successor, pushes, fetched>>
    /\ UNCHANGED <<entries, numerics>>

\* The entry of SpecDoc updates alice, who is in the collection, found by
\* name or by id, with the largest retry budget.
DocBuilders ==
    {EntryBuilder(ref, NoCallback, IncRank, MaxRetry) :
        ref \in {NameRef("alice"), IdRef(1)}}

InitDoc ==
    /\ Start(Caller, DocBuilders)
    /\ store[1].tag = "doc"
    /\ NumericsIdle
    /\ DocumentsIdle

NextDoc ==
    \/ \E n \in Names, uuid \in Ids : DocumentNew(Contents(n, 0), uuid)
    \/ \E c \in Payloads : DocumentUpdateWith(c)
    \/ Emit
    \/ \E key \in EmitKeys : EmitKey(key)
    \/ \E value \in EmitValues : EmitValue(value)
    \/ \E key \in EmitKeys, value \in EmitValues : EmitKeyAndValue(key, value)
    \/ \E p \in DOMAIN pc : poll(p)
    \/ \E p \in DOMAIN pc : Lookup(p)
    \/ \E p \in DOMAIN pc : Update(p)
    \/ \E p \in DOMAIN pc : Reload(p)
    \/ \E i \in Ids : OtherUpdate(i)
    \/ \E i \in Ids : OtherDelete(i)

\* A caller makes one document, derives successors and emissions from it,
\* and awaits one entry that updates alice while other clients write.
SpecDoc == InitDoc /\ [][NextDoc]_vars

\* ------------------------------------------- typed push and get directly
\* InsertError { contents, error }
InsertError(c, e) == [kind |-> "InsertError", contents |-> c, error |-> e]

\* push returning the document with the contents it has by default.
push_default_contents(contents, resp) ==
    IF resp.out = "ok"
    THEN OkSome(CollectionDocument(resp.header.id, resp.header.revision,
                                   Contents(contents.name, 0)))
    ELSE Err(InsertError(contents, resp.error))

\* SerializedCollection::push from the answer of the connection on.
push(contents, resp) ==
    IF resp.out = "ok"
    THEN OkSome(CollectionDocument(resp.header.id, resp.header.revision, contents))
    ELSE Err(InsertError(contents, resp.error))

\* SerializedCollection::get from the answer of the connection on.
collection_get(i) ==
    IF get(i).tag = "doc" THEN OkSome(try_from(i)) ELSE OkNone

Pushed(c, h, r) == [payload |-> c, header |-> h, result |-> r]

\* The payloads the caller of SpecStore pushes.
Pushable == {Contents("alice", 0), Contents("bob", 1)}

\* Col::push(c, connection), accepted by the server.
CollectionPush(c) ==
    /\ nextId <= MaxDocs
    /\ LET r == ServerPush(c)
       IN  /\ store' = r.store
           /\ pushes' = Append(pushes,
                               Pushed(c, r.header,
                                      push(c, Answer("ok", NoDoc, r.header, NoError))))
    /\ nextId' = nextId + 1
    /\ clock' = clock + 1
    /\ UNCHANGED <<pc, builder, running, history, envOps, faults>>
    /\ UNCHANGED <<numerics, document, successor, emitted, fetched>>

\* Col::push(c, connection), failing on the way to the server.
CollectionPushFails(c) ==
    /\ faults < MaxFaults
    /\ faults' = faults + 1
    /\ pushes' = Append(pushes,
                        Pushed(c, NoHeader,
                               push(c, Answer("error", NoDoc, NoHeader, Transport))))
    /\ UNCHANGED <<server, pc, builder, running, history, envOps>>
    /\ UNCHANGED <<numerics, document, successor, emitted, fetched>>

\* Col::get(i, connection)
CollectionGet(i) ==
    /\ fetched' = [tag |-> "get", id |-> i, after |-> Len(pushes),
                   result |-> collection_get(i)]
    /\ UNCHANGED <<entries, numerics, document, successor, emitted, pushes>>

InitStore ==
    /\ EntriesIdle
    /\ NumericsIdle
    /\ DocumentsIdle

NextStore ==
    \/ \E c \in Pushable : CollectionPush(c)
    \/ \E c \in Pushable : CollectionPushFails(c)
    \/ \E i \in Ids : CollectionGet(i)

\* A caller pushes payloads into an empty collection and gets documents
\* back by id; nobody else writes.
SpecStore == InitStore /\ [][NextStore]_vars

\* ------------------------------------------------- insert and overwrite
\* Error::Serialization
Serialization ==
    [kind |-> "Serialization", collection |-> "", header |-> NoHeader]

\* Contents the Serialize implementation of the record type refuses.
Unserializable == {Contents("carol", 0)}

\* Self::serialize(&contents) as overwrite calls it.
try_serialize(c) ==
    IF c \in Unserializable
    THEN [tag |-> "Err", error |-> Serialization, bytes |-> <<>>]
    ELSE [tag |-> "Ok", error |-> NoError, bytes |-> serialize(c)]

\* Connection::insert: the id must be free.
ServerInsert(i, c) ==
    LET bytes == serialize(c)
    IN  IF store[i].tag = "doc"
        THEN [out |-> "conflict",
              header |-> [id |-> i, revision |-> store[i].revision],
              store |-> store]
        ELSE [out |-> "ok",
              header |-> [id |-> i, revision |-> Revision_initial(bytes)],
              store |-> [store EXCEPT ![i] = StoredDoc(Revision_initial(bytes), bytes)]]

\* Connection::overwrite: the bytes replace whatever the id holds.
ServerOverwrite(i, bytes) ==
    IF store[i].tag = "doc"
    THEN LET nxt == next_revision(store[i].revision, bytes)
         IN  IF nxt.tag = "none"
             THEN [header |-> [id |-> i, revision |-> store[i].revision],
                   store |-> store]
             ELSE [header |-> [id |-> i, revision |-> nxt.revision],
                   store |-> [store EXCEPT ![i] = StoredDoc(nxt.revision, bytes)]]
    ELSE [header |-> [id |-> i, revision |-> Revision_initial(bytes)],
          store |-> [store EXCEPT ![i] = StoredDoc(Revision_initial(bytes), bytes)]]

\* SerializedCollection::insert from the answer of the connection on.
insert(contents, resp) ==
    IF resp.out = "ok"
    THEN OkSome(CollectionDocument(resp.header.id, resp.header.revision, contents))
    ELSE Err(InsertError(contents, resp.error))

\* overwrite handing back the contents a document has by default.
overwrite_default_contents(contents, ser, resp) ==
    IF ser.tag = "Ok"
    THEN IF resp.out = "ok"
         THEN OkSome(CollectionDocument(resp.header.id, resp.header.revision,
                                        contents))
         ELSE Err(InsertError(Contents(contents.name, 0), resp.error))
    ELSE Err(InsertError(Contents(contents.name, 0), ser.error))

\* SerializedCollection::overwrite from the result of serialize on; resp is
\* the answer of the connection when the call was made.
overwrite(contents, ser, resp) ==
    IF ser.tag = "Ok"
    THEN IF resp.out = "ok"
         THEN OkSome(CollectionDocument(resp.header.id, resp.header.revision,
                                        contents))
         ELSE Err(InsertError(contents, resp.error))
    ELSE Err(InsertError(contents, ser.error))

\* What the caller gave to push, insert or overwrite and what came of it:
\* the connection calls the operation issued, the error the connection or
\* the serializer reported, and the result handed to the caller.
Created(op, i, c, n, e, r) ==
    [op |-> op, id |-> i, payload |-> c, calls |-> n, error |-> e, result |-> r]

\* Col::push(c, connection), failing on the way to the server.
CreatePushFails(c) ==
    /\ faults < MaxFaults
    /\ faults' = faults + 1
    /\ pushes' = Append(pushes,
                        Created("push", 0, c, 1, Transport,
                                push(c, Answer("error", NoDoc, NoHeader, Transport))))
    /\ UNCHANGED <<server, pc, builder, running, history, envOps>>
    /\ UNCHANGED <<numerics, document, successor, emitted, fetched>>

\* Col::insert(i, c, connection): accepted, or refused because the id is
\* taken.
CollectionInsert(i, c) ==
    /\ Len(pushes) < MaxDocs
    /\ LET r == ServerInsert(i, c)
           e == IF r.out = "ok" THEN NoError ELSE DocumentConflict(r.header)
       IN  /\ store' = r.store
           /\ clock' = IF r.out = "ok" THEN clock + 1 ELSE clock
           /\ pushes' = Append(pushes,
                               Created("insert", i, c, 1, e,
                                       insert(c, Answer(IF r.out = "ok" THEN "ok"
                                                        ELSE "error",
                                                        NoDoc, r.header, e))))
    /\ UNCHANGED <<nextId, pc, builder, running, history, envOps, faults>>
    /\ UNCHANGED <<numerics, document, successor, emitted, fetched>>

\* Col::overwrite(i, c, connection): the contents are serialized first, and
\* only bytes reach the connection, which stores them or fails.
CollectionOverwrite(i, c, fails) ==
    /\ Len(pushes) < MaxDocs
    /\ LET ser == try_serialize(c)
       IN  IF ser.tag = "Err"
           THEN /\ ~ fails
                /\ pushes' = Append(pushes,
                                    Created("overwrite", i, c, 0, ser.error,
                                            overwrite(c, ser,
                                                Answer("error", NoDoc, NoHeader,
                                                       NoError))))
                /\ UNCHANGED <<server, faults>>
           ELSE IF fails
           THEN /\ faults < MaxFaults
                /\ faults' = faults + 1
                /\ pushes' = Append(pushes,
                                    Created("overwrite", i, c, 1, Transport,
                                            overwrite(c, ser,
                                                Answer("error", NoDoc, NoHeader,
                                                       Transport))))
                /\ UNCHANGED server
           ELSE LET r == ServerOverwrite(i, ser.bytes)
                IN  /\ store' = r.store
                    /\ clock' = IF r.store # store THEN clock + 1 ELSE clock
                    /\ pushes' = Append(pushes,
                                        Created("overwrite", i, c, 1, NoError,
                                                overwrite(c, ser,
                                                    Answer("ok", NoDoc, r.header,
                                                           NoError))))
                    /\ UNCHANGED <<nextId, faults>>
    /\ UNCHANGED <<pc, builder, running, history, envOps>>
    /\ UNCHANGED <<numerics, document, successor, emitted, fetched>>

\* The ids the caller of SpecCreate chooses, and what it inserts and
\* overwrites with.
CreateIds == {1, MaxDocs}
Creatable == {Contents("alice", 0), Contents("bob", 1)} \cup Unserializable

InitCreate ==
    /\ EntriesIdle
    /\ NumericsIdle
    /\ DocumentsIdle

NextCreate ==
    \/ \E c \in Pushable : CreatePushFails(c)
    \/ \E i \in CreateIds, c \in Pushable : CollectionInsert(i, c)
    \/ \E i \in CreateIds, c \in Creatable, fails \in BOOLEAN :
           CollectionOverwrite(i, c, fails)

\* A caller creates documents under ids of its choice with insert and
\* overwrite and pushes through a connection that may fail.
SpecCreate == InitCreate /\ [][NextCreate]_vars

\* ------------------------------------------------ resolving named references
\* NamedReference::Key
KeyRef(i) == [tag |-> "Key", name |-> "", id |-> i]

\* The references the caller of SpecResolve resolves.
Resolvable ==
    {NameRef(n) : n \in Names} \cup {IdRef(i) : i \in Ids} \cup {KeyRef(i) : i \in Ids}

\* The connection calls of a resolution.
ViewQuery(n) == [call |-> "query", view |-> "ByNameView", key |-> n, id |-> 0]
GetCall(i)   == [call |-> "get", view |-> "", key |-> "", id |-> i]

\* The connection calls NamedCollection::load_document issues.
load_document_calls(ref) ==
    IF ref.tag = "Name" THEN <<ViewQuery(ref.name)>> ELSE <<GetCall(ref.id)>>

\* The connection calls NamedReference::id issues.
NamedReference_id_calls(ref) ==
    IF ref.tag = "Name" THEN <<ViewQuery(ref.name)>> ELSE <<>>

\* NamedReference::id: the id the reference resolves to, 0 for None.
NamedReference_id(ref) ==
    IF ref.tag = "Name"
    THEN IF MatchingIds(ref.name) = {} THEN 0 ELSE Min(MatchingIds(ref.name))
    ELSE ref.id

Resolved_as(op, ref, calls, i) ==
    [tag |-> op, ref |-> ref, calls |-> calls, id |-> i, seen |-> store]

\* Col::load_document(ref, connection)
LoadDocument(ref) ==
    /\ fetched' = Resolved_as("load_document", ref, load_document_calls(ref),
                              load_document(ref))
    /\ UNCHANGED <<entries, numerics, document, successor, emitted, pushes>>

\* ref.id::<Col, _>(connection)
ResolveId(ref) ==
    /\ fetched' = Resolved_as("id", ref, NamedReference_id_calls(ref),
                              NamedReference_id(ref))
    /\ UNCHANGED <<entries, numerics, document, successor, emitted, pushes>>

NextResolve ==
    \/ \E c \in Pushable : CollectionPush(c)
    \/ \E ref \in Resolvable : LoadDocument(ref)
    \/ \E ref \in Resolvable : ResolveId(ref)

\* A caller pushes payloads, some under a name that is already there, and
\* resolves references by name, id and key.
SpecResolve == InitStore /\ [][NextResolve]_vars

\* ------------------------------------------------------------- properties
Resolved(p) == pc[p] = "Resolved"
Started(p)  == pc[p] # "Pending"
Last(sq)    == sq[Len(sq)]

\* The write attempts of entry p, in order.
Updates(p) == SelectSeq(log[p], LAMBDA e : e.call = "update")

\* The first n write attempts of p met a conflict and the next was accepted.
ConflictsThenAccepted(p, n) ==
    /\ Len(Updates(p)) >= n + 1
    /\ \A k \in 1 .. n : Updates(p)[k].out = "conflict"
    /\ Updates(p)[n + 1].out = "ok"

\* C1: bounded retry.  With retry budget N, when the first N conditioned
\* writes of an execution meet a Conflict and write N+1 is accepted, the
\* execution returns the updated document at write N+1; and in every
\* execution the update callback is invoked at most N+1 times.
C1_BoundedRetry ==
    \A p \in DOMAIN pc :
        Started(p) =>
            /\ updateCalls[p] <= args[p].retry_limit + 1
            /\ ConflictsThenAccepted(p, args[p].retry_limit) =>
                   /\ Resolved(p)
                   /\ Len(Updates(p)) = args[p].retry_limit + 1
                   /\ Last(log[p]) = Call("update", "ok")
                   /\ result[p] = OkSome(committed[p])
                   /\ committed[p].contents = update_call(IncRank, loaded[p].contents)

\* An execution with budget of at least 2 spent all of it and then succeeded.
C1_Witness ==
    \E p \in DOMAIN pc :
        /\ Resolved(p)
        /\ args[p].retry_limit >= 2
        /\ ConflictsThenAccepted(p, args[p].retry_limit)
        /\ updateCalls[p] = args[p].retry_limit + 1

\* The executions that returned a document.
Returned == {p \in DOMAIN pc : result[p].tag = "Ok" /\ result[p].value.tag = "doc"}

\* Every caller ran rank += 1 against the document that was there from the
\* start, and all have finished.
AllUpdatedAlice ==
    \A p \in DOMAIN pc :
        /\ Resolved(p)
        /\ args[p].update = IncRank
        /\ log[p][1] = Call("lookup", "doc")

\* C2: no double-applied or lost mutation under races.  When the racing
\* executions all apply rank += 1 to the same existing document, the rank
\* stored at the end is the initial rank plus the number of executions that
\* returned a document, and each returned document is exactly what that
\* execution's own accepted write stored.
C2_NoLostNoDoubleUpdate ==
    AllUpdatedAlice =>
        /\ store[1].tag = "doc"
        /\ deserialize(store[1].contents).rank =
               AliceAtStart.rank + Cardinality(Returned)
        /\ \A p \in Returned :
               /\ result[p].value = committed[p]
               /\ lastWrite[p].out = "ok"
               /\ lastWrite[p].changed

\* A race was lost and won: an execution met a Conflict, retried and
\* returned a document, and so did every other.
C2_Witness ==
    /\ AllUpdatedAlice
    /\ Cardinality(Returned) = Cardinality(DOMAIN pc)
    /\ \E p \in Returned : Outcomes(p, "update", "conflict") # {}

\* C3: after a Conflict with budget remaining, the callback is next applied
\* to the contents the reload returned, not to the contents already mutated,
\* and the next write carries the revision of that reload; every write
\* attempt presents the revision of the execution's most recent load.
C3_RetryFromReloaded ==
    \A p \in DOMAIN pc :
        /\ pc[p] = "update" =>
               /\ loaded[p].tag = "doc"
               /\ existing[p] = apply_update(args[p].update, loaded[p])
               /\ existing[p].header = loaded[p].header
        /\ (log[p] # <<>> /\ Last(log[p]).call = "update") =>
               lastWrite[p].presented = loaded[p].header

\* An execution made a second write attempt, after a Conflict and a reload
\* that returned contents another client had changed.
C3_Witness ==
    \E p \in DOMAIN pc :
        /\ Len(log[p]) >= 4
        /\ log[p][2] = Call("update", "conflict")
        /\ log[p][3] = Call("reload", "doc")
        /\ log[p][4].call = "update"
        /\ lastWrite[p].presented = loaded[p].header

Conflicts(p) == Cardinality(Outcomes(p, "update", "conflict"))

\* C4: budget exhaustion.  When a conditioned write meets a Conflict and no
\* budget remains (it is Conflict number N+1), the execution ends with that
\* Conflict, carrying the collection and header the server reported, makes
\* no reload and no further write, and its failed write left the store as it
\* was.
C4_BudgetExhausted ==
    \A p \in DOMAIN pc :
        (Started(p) /\ Conflicts(p) > args[p].retry_limit) =>
            /\ Resolved(p)
            /\ Conflicts(p) = args[p].retry_limit + 1
            /\ Last(log[p]) = Call("update", "conflict")
            /\ Cardinality(Calls(p, "reload")) = args[p].retry_limit
            /\ lastWrite[p].out = "conflict"
            /\ ~lastWrite[p].changed
            /\ result[p] = Err(DocumentConflict(lastWrite[p].header))
            /\ committed[p] = NoDoc

\* An execution with a budget of at least 1 ended in a Conflict.
C4_Witness ==
    \E p \in DOMAIN pc :
        /\ Resolved(p)
        /\ args[p].retry_limit >= 1
        /\ Conflicts(p) = args[p].retry_limit + 1
        /\ result[p].tag = "Err"

\* C5: deleted during retry.  When the reload that follows a Conflict finds
\* no document, the execution returns Ok(None), not an error, and issues no
\* further write.
C5_DeletedDuringRetry ==
    \A p \in DOMAIN pc :
        Outcomes(p, "reload", "none") # {} =>
            /\ Resolved(p)
            /\ result[p] = OkNone
            /\ Last(log[p]) = Call("reload", "none")
            /\ log[p][Len(log[p]) - 1] = Call("update", "conflict")
            /\ committed[p] = NoDoc

\* The document was deleted between a Conflict and the reload.
C5_Witness ==
    \E p \in DOMAIN pc :
        /\ Resolved(p)
        /\ Outcomes(p, "reload", "none") # {}
        /\ result[p] = OkNone

\* The connection calls of p that returned an error other than a Conflict.
Errors(p) == {k \in 1 .. Len(log[p]) : log[p][k].out = "error"}

\* The loads of p that returned a document.
Loads(p) == Outcomes(p, "lookup", "doc") \cup Outcomes(p, "reload", "doc")

\* C6: only Conflict is retried.  An error other than Conflict from the
\* lookup, a conditioned write, a reload or the push ends the execution at
\* once with that error, whatever budget remains: it is the last connection
\* call, and no callback runs after it.
C6_OnlyConflictRetried ==
    \A p \in DOMAIN pc :
        Errors(p) # {} =>
            /\ Resolved(p)
            /\ Errors(p) = {Len(log[p])}
            /\ lastError[p].kind # "DocumentConflict"
            /\ result[p] = Err(lastError[p])
            /\ updateCalls[p] =
                   IF args[p].update.tag = "some" THEN Cardinality(Loads(p)) ELSE 0
            /\ insertCalls[p] = Cardinality(Calls(p, "push"))

\* A conditioned write failed with another error while budget remained.
C6_Witness ==
    \E p \in DOMAIN pc :
        /\ Resolved(p)
        /\ Last(log[p]) = Call("update", "error")
        /\ retry_limit[p] > 0
        /\ result[p] = Err(lastError[p])

\* C7: when the lookup finds a document and no update callback is
\* configured, the execution returns that document, with the id, revision
\* and contents the lookup returned, and issues no write, whether or not an
\* insert callback is configured.
C7_FoundWithoutUpdate ==
    \A p \in DOMAIN pc :
        (/\ Started(p)
         /\ args[p].update = NoCallback
         /\ log[p] # <<>>
         /\ log[p][1] = Call("lookup", "doc")) =>
            /\ Resolved(p)
            /\ log[p] = <<Call("lookup", "doc")>>
            /\ result[p] = OkSome(loaded[p])
            /\ lastWrite[p] = NoWrite
            /\ committed[p] = NoDoc
            /\ updateCalls[p] = 0
            /\ insertCalls[p] = 0

\* An entry with an insert callback and no update callback found a document.
C7_Witness ==
    \E p \in DOMAIN pc :
        /\ Resolved(p)
        /\ args[p].update = NoCallback
        /\ args[p].insert # NoCallback
        /\ result[p] = OkSome(loaded[p])
        /\ loaded[p].tag = "doc"

\* C8: the insert callback is invoked exactly once when the lookup finds no
\* document and a callback is configured; its value goes to exactly one push
\* and, the push accepted, is the document returned.  It is never invoked
\* when the lookup finds a document, and never more than once.
C8_InsertOnce ==
    \A p \in DOMAIN pc :
        /\ insertCalls[p] <= 1
        /\ (log[p] # <<>> /\ log[p][1] = Call("lookup", "doc")) =>
               /\ insertCalls[p] = 0
               /\ Calls(p, "push") = {}
        /\ (/\ log[p] # <<>>
            /\ log[p][1] = Call("lookup", "none")
            /\ args[p].insert # NoCallback) =>
               /\ insertCalls[p] = 1
               /\ new_document[p] = insert_call(args[p].insert)
               /\ ~Resolved(p) => pc[p] = "push" /\ Len(log[p]) = 1
               /\ Resolved(p) =>
                      /\ Len(log[p]) = 2
                      /\ log[p][2].call = "push"
                      /\ log[p][2].out = "ok" =>
                             /\ result[p] = OkSome(committed[p])
                             /\ committed[p].contents = insert_call(args[p].insert)
                      /\ log[p][2].out = "error" => result[p] = Err(lastError[p])

\* The lookup found nothing and the value of the callback was pushed and
\* returned.
C8_Witness ==
    \E p \in DOMAIN pc :
        /\ Resolved(p)
        /\ log[p] = <<Call("lookup", "none"), Call("push", "ok")>>
        /\ insertCalls[p] = 1
        /\ result[p] = OkSome(committed[p])

\* Entry p ran alone: nothing was written between its lookup, which found
\* nothing, and its own push.
InsertedAlone(p) ==
    /\ Resolved(p)
    /\ args[p].insert # NoCallback
    /\ log[p][1] = Call("lookup", "none")
    /\ committedAt[p] = lookedAt[p] + 1

\* Entry q ran after p's write with nothing written in between.
LookedUpRightAfter(q, p) ==
    /\ Resolved(q)
    /\ q # p
    /\ lookedAt[q] = committedAt[p]

\* entry(name).update_with(rank += 1).or_insert_with(default).retry_limit(3)
IsUpsert(p) ==
    /\ args[p].update = IncRank
    /\ args[p].insert = [tag |-> "some", value |-> AliceAtStart]
    /\ args[p].retry_limit = 3

\* C9: the upsert scenario.  An entry with update_with(rank += 1),
\* or_insert_with(default) and retry_limit(3) run on an absent name inserts
\* the default without applying the callback (rank 0 stored and returned);
\* the same entry run again with no concurrent writer finds that record,
\* applies the callback once and stores and returns rank 1.  In general the
\* callback is never applied on the insert path and exactly once on the
\* found path without conflict.
C9_UpsertScenario ==
    /\ \A p \in DOMAIN pc :
           Resolved(p) =>
               /\ log[p][1] = Call("lookup", "none") =>
                      /\ updateCalls[p] = 0
                      /\ args[p].insert # NoCallback =>
                             /\ result[p] = OkSome(committed[p])
                             /\ committed[p].contents = insert_call(args[p].insert)
               /\ (/\ log[p][1] = Call("lookup", "doc")
                   /\ args[p].update = IncRank
                   /\ Conflicts(p) = 0) =>
                      /\ updateCalls[p] = 1
                      /\ log[p] = <<Call("lookup", "doc"), Call("update", "ok")>>
                      /\ result[p] = OkSome(committed[p])
                      /\ committed[p].contents =
                             update_call(IncRank, loaded[p].contents)
    /\ \A p, q \in DOMAIN pc :
           (/\ IsUpsert(p) /\ IsUpsert(q)
            /\ InsertedAlone(p)
            /\ LookedUpRightAfter(q, p)
            /\ Conflicts(q) = 0) =>
               /\ updateCalls[p] = 0
               /\ result[p].value.contents.rank = 0
               /\ committed[p].contents.rank = 0
               /\ loaded[q] = result[p].value
               /\ updateCalls[q] = 1
               /\ result[q].tag = "Ok"
               /\ result[q].value.header.id = result[p].value.header.id
               /\ result[q].value.contents.rank = 1
               /\ committed[q] = result[q].value

\* The upsert ran twice, one run after the other: the first inserted, the
\* second updated.
C9_Witness ==
    \E p, q \in DOMAIN pc :
        /\ IsUpsert(p) /\ IsUpsert(q)
        /\ InsertedAlone(p)
        /\ LookedUpRightAfter(q, p)
        /\ Conflicts(q) = 0
        /\ result[q].value.contents.rank = 1
        /\ deserialize(store[result[q].value.header.id].contents).rank = 1

\* C10: insert-then-find.  With no concurrent writer, or_insert_with(f) on
\* an absent name creates exactly one document, holding f's value; a later
\* entry for the name with no update callback returns that same document
\* (id, revision and contents) and issues no write.
C10_InsertThenFind ==
    \A p, q \in DOMAIN pc :
        InsertedAlone(p) =>
            /\ log[p] = <<Call("lookup", "none"), Call("push", "ok")>>
            /\ result[p] = OkSome(committed[p])
            /\ committed[p].contents = insert_call(args[p].insert)
            /\ clock = committedAt[p] =>
                   /\ {i \in Ids : store[i].tag = "doc"} = {committed[p].header.id}
                   /\ try_from(committed[p].header.id) = committed[p]
            /\ (LookedUpRightAfter(q, p) /\ args[q].update = NoCallback) =>
                   /\ log[q] = <<Call("lookup", "doc")>>
                   /\ result[q] = result[p]
                   /\ lastWrite[q] = NoWrite
                   /\ committed[q] = NoDoc

\* One entry inserted and a later one, with no update callback, found the
\* document.
C10_Witness ==
    \E p, q \in DOMAIN pc :
        /\ InsertedAlone(p)
        /\ LookedUpRightAfter(q, p)
        /\ args[q].update = NoCallback
        /\ result[q] = result[p]
        /\ result[p].value.tag = "doc"

\* C11: when the lookup finds no document and no insert callback is
\* configured, the execution returns Ok(None), not an error; the lookup is
\* its only connection call, no callback is invoked, the update callback
\* included, and nothing is written.
C11_AbsentWithoutInsert ==
    \A p \in DOMAIN pc :
        (/\ Started(p)
         /\ args[p].insert = NoCallback
         /\ log[p] # <<>>
         /\ log[p][1] = Call("lookup", "none")) =>
            /\ Resolved(p)
            /\ result[p] = OkNone
            /\ log[p] = <<Call("lookup", "none")>>
            /\ updateCalls[p] = 0
            /\ insertCalls[p] = 0
            /\ lastWrite[p] = NoWrite
            /\ committed[p] = NoDoc

\* An entry with an update callback and no insert callback found nothing.
C11_Witness ==
    \E p \in DOMAIN pc :
        /\ Resolved(p)
        /\ args[p].insert = NoCallback
        /\ args[p].update = IncRank
        /\ log[p] = <<Call("lookup", "none")>>
        /\ result[p] = OkNone

\* The conditioned write of entry p reaches the server in this step while
\* the stored document has another revision than the one p presents.
StaleWrite(p) ==
    /\ pc[p] = "update"
    /\ log'[p] # log[p]
    /\ faults' = faults
    /\ store[existing[p].header.id].tag = "doc"
    /\ store[existing[p].header.id].revision # existing[p].header.revision

\* C12: an update presenting a revision other than the stored revision of
\* the document changes neither the stored contents nor the stored
\* revision, and fails with Conflict carrying the header the document has in
\* the store; the execution receives that header, as the id to reload or in
\* the Conflict it returns.
C12_ConflictSafety ==
    [][\A p \in DOMAIN pc :
          StaleWrite(p) =>
              LET i    == existing[p].header.id
                  current == [id |-> i, revision |-> store[i].revision]
              IN  /\ store' = store
                  /\ lastWrite'[p].out = "conflict"
                  /\ lastWrite'[p].header = current
                  /\ lastWrite'[p].changed = FALSE
                  /\ IF retry_limit[p] > 0
                     THEN pc'[p] = "reload" /\ header'[p] = current
                     ELSE result'[p] = Err(DocumentConflict(current))]_vars

\* An update presenting R0 was accepted and gave R1; the entry, still
\* presenting R0, got Conflict carrying R1.
C12_Witness ==
    \E p \in DOMAIN pc :
        /\ lastWrite[p].out = "conflict"
        /\ lastWrite[p].header.id = lastWrite[p].presented.id
        /\ lastWrite[p].header.revision.id = lastWrite[p].presented.revision.id + 1
        /\ store[lastWrite[p].header.id].tag = "doc"
        /\ store[lastWrite[p].header.id].revision = lastWrite[p].header.revision
        /\ result[p] = Err(DocumentConflict(lastWrite[p].header))

\* The first KeyOperation operation p sent.
Sent(p) == sent[p][1]

\* C13: a builder on which allow_overflow() was not called sends
\* saturating = true, and the value it gets back is the stored value plus
\* (minus) the amount, clamped to the bounds of the numeric type: an
\* increment never exceeds the maximum, a decrement never goes below the
\* minimum.  With 8 bits, 250 + 10 gives 255.
C13_SaturatingByDefault ==
    \A p \in DOMAIN numeric :
        (sent[p] # <<>> /\ ~allowed[p]) =>
            /\ Sent(p).command.saturating = TRUE
            /\ served[p].done =>
                  LET v == served[p].before
                      a == Sent(p).command.amount.value
                  IN  /\ served[p].after \in 0 .. MaxValue
                      /\ served[p].after =
                             IF Sent(p).command.tag = "Increment"
                             THEN (IF v + a > MaxValue THEN MaxValue ELSE v + a)
                             ELSE (IF v - a < 0 THEN 0 ELSE v - a)
                      /\ outcome[p] = OkValue(served[p].after)
                      /\ (/\ Bits = 8
                          /\ v = 250
                          /\ a = 10
                          /\ Sent(p).command.tag = "Increment") =>
                             outcome[p] = OkValue(255)

\* An increment without allow_overflow() went past the maximum and returned
\* the maximum.
C13_Witness ==
    \E p \in DOMAIN numeric :
        /\ ~allowed[p]
        /\ served[p].done
        /\ Sent(p).command.tag = "Increment"
        /\ served[p].before < MaxValue
        /\ served[p].before + Sent(p).command.amount.value > MaxValue
        /\ outcome[p] = OkValue(MaxValue)

\* C14: after allow_overflow() the builder sends saturating = false and the
\* value it gets back is the wrapping result for the width of the type:
\* (value + amount) mod 2^Bits for an increment, (value - amount) mod
\* 2^Bits for a decrement.  With 8 bits, 250 + 10 gives 4.
C14_OverflowOptIn ==
    \A p \in DOMAIN numeric :
        (sent[p] # <<>> /\ allowed[p]) =>
            /\ Sent(p).command.saturating = FALSE
            /\ served[p].done =>
                  LET v == served[p].before
                      a == Sent(p).command.amount.value
                  IN  /\ served[p].after =
                             IF Sent(p).command.tag = "Increment"
                             THEN (v + a) % (2 ^ Bits)
                             ELSE (v - a) % (2 ^ Bits)
                      /\ outcome[p] = OkValue(served[p].after)
                      /\ (/\ Bits = 8
                          /\ v = 250
                          /\ a = 10
                          /\ Sent(p).command.tag = "Increment") =>
                             outcome[p] = OkValue(4)

\* An AsyncBuilder with allow_overflow() decremented below zero and got the
\* wrapped value.
C14_Witness ==
    \E p \in DOMAIN numeric :
        /\ allowed[p]
        /\ numeric[p].mode = "async"
        /\ served[p].done
        /\ Sent(p).command.tag = "Decrement"
        /\ served[p].before < Sent(p).command.amount.value
        /\ outcome[p] =
               OkValue(served[p].before - Sent(p).command.amount.value + 2 ^ Bits)

\* The key every counter of SpecCounter increments.
CounterCell == <<NoNamespace, "hits">>

\* Operation p has returned to its caller.
Finished(p) == numeric[p].state \in {"Returned", "Ready"}

\* C15: every increment issues exactly one execute_key_operation call, an
\* Increment and no read.  While the maximum is out of reach, in every
\* interleaving of the increments by 1 of one key the stored value is the
\* initial value plus the number of increments that have returned, so it is
\* the initial value plus K when all K have; the values returned are
\* pairwise distinct and no increment is lost.
C15_AtomicCounter ==
    kvInitial + Cardinality(DOMAIN numeric) <= MaxValue =>
        /\ \A p \in DOMAIN numeric :
               /\ Len(sent[p]) <= 1
               /\ Finished(p) =>
                     /\ Len(sent[p]) = 1
                     /\ Sent(p).command.tag = "Increment"
                     /\ Sent(p).command.amount = UnsignedInteger(1)
                     /\ outcome[p].tag = "Ok"
                     /\ outcome[p].value \in
                            kvInitial + 1 .. kvInitial + Cardinality(DOMAIN numeric)
        /\ kv[CounterCell] =
               kvInitial + Cardinality({p \in DOMAIN numeric : Finished(p)})
        /\ \A p, q \in DOMAIN numeric :
               (p # q /\ Finished(p) /\ Finished(q)) => outcome[p] # outcome[q]

\* A blocking and a suspending increment of the same key have returned, and
\* so have all the others.
C15_Witness ==
    /\ kvInitial > 0
    /\ \A p \in DOMAIN numeric : Finished(p)
    /\ kv[CounterCell] = kvInitial + Cardinality(DOMAIN numeric)
    /\ \E p, q \in DOMAIN numeric :
           /\ numeric[p].mode = "blocking"
           /\ numeric[q].mode = "async"
           /\ outcome[p] = OkValue(kvInitial + 1)
           /\ outcome[q] = OkValue(kvInitial + 2)

\* C16: built with the same namespace, key, direction and amount and the
\* same allow_overflow choice, Builder and AsyncBuilder hold the same
\* options; from the same options Builder::execute and the polled
\* AsyncBuilder send the same KeyOperation, the one that was sent; and for
\* the same response of the server both give the same outcome (the same Ok
\* value, the same error, or the same panic), the one the caller got.
C16_BlockingAsyncEquivalent ==
    /\ [](\A p \in DOMAIN numeric :
            /\ numeric[p].options.tag = "some" =>
                  /\ numeric[p].options.saturating = ~allowed[p]
                  /\ Builder_allow_overflow(numeric[p]).options =
                         AsyncBuilder_allow_overflow(numeric[p]).options
            /\ response[p] # NoResponse =>
                  /\ outcome[p] = Builder_result(response[p])
                  /\ outcome[p] = AsyncBuilder_result(response[p]))
    /\ [][\A p \in DOMAIN numeric :
            sent'[p] # sent[p] =>
                /\ sent'[p] = <<Builder_operation(numeric[p].options)>>
                /\ sent'[p] = <<AsyncBuilder_operation(numeric[p].options)>>]_vars

\* An AsyncBuilder with allow_overflow() got a value back, wrapped around.
C16_Witness ==
    \E p \in DOMAIN numeric :
        /\ numeric[p].mode = "async"
        /\ numeric[p].state = "Ready"
        /\ allowed[p]
        /\ served[p].done
        /\ served[p].after < served[p].before
        /\ Sent(p).command.tag = "Increment"
        /\ outcome[p] = Builder_result(response[p])

\* response is a numeric value of the requested type.
Convertible(resp) ==
    /\ resp.tag = "Value"
    /\ resp.value.kind = "Numeric"
    /\ resp.value.numeric.kind = "UnsignedInteger"
    /\ resp.value.numeric.value \in 0 .. MaxValue

\* C17: an error returned by execute_key_operation is returned to the caller
\* unchanged as Err; a response that is not a numeric value, or whose
\* numeric value does not convert to the requested type, ends the call with
\* a panic, never with Ok and never with Err.
C17_ResponseHandling ==
    \A p \in DOMAIN numeric :
        response[p] # NoResponse =>
            /\ response[p].tag = "Error" => outcome[p] = Err(response[p].error)
            /\ (response[p].tag # "Error" /\ ~Convertible(response[p])) =>
                   outcome[p].tag = "panic"
            /\ Convertible(response[p]) =>
                   outcome[p] = OkValue(response[p].value.numeric.value)

\* Builder::execute got a numeric value that does not convert and panicked.
C17_Witness ==
    \E p \in DOMAIN numeric :
        /\ numeric[p].mode = "blocking"
        /\ response[p] \in Incompatible
        /\ outcome[p] = Panic("server should send back identical type")

\* C18: for the document d in hand and every key k and value v,
\* emit() = emit_key_and_value((), ()), emit_key(k) =
\* emit_key_and_value(k, ()), emit_value(v) = emit_key_and_value((), v), and
\* emit_key_and_value(k, v) is the Map { source: d.id, key: k, value: v }:
\* every Map record emitted has the id of its document as source.
C18_EmissionIdentity ==
    document.tag = "doc" =>
        /\ emit(document) = [tag |-> "map", source |-> document.id,
                             key |-> Unit, value |-> Unit]
        /\ emit(document) = emit_key_and_value(document, Unit, Unit)
        /\ \A k \in EmitKeys \cup EmitValues :
               /\ emit_key(document, k) = [tag |-> "map", source |-> document.id,
                                           key |-> k, value |-> Unit]
               /\ emit_key(document, k) = emit_key_and_value(document, k, Unit)
               /\ emit_value(document, k) = [tag |-> "map", source |-> document.id,
                                             key |-> Unit, value |-> k]
               /\ emit_value(document, k) = emit_key_and_value(document, Unit, k)
        /\ \A k \in EmitKeys, v \in EmitValues :
               emit_key_and_value(document, k, v) =
                   [tag |-> "map", source |-> document.id, key |-> k, value |-> v]
        /\ emitted.tag # "none" =>
               /\ emitted.map.source = document.id
               /\ emitted.map.key = emitted.key
               /\ emitted.map.value = emitted.value
               /\ emitted.tag = "emit" => emitted.map.key = Unit
               /\ emitted.tag \in {"emit", "emit_key"} => emitted.map.value = Unit
               /\ emitted.tag \in {"emit", "emit_value"} => emitted.map.key = Unit

\* emit_key(1) gave a record with the id of the document, key 1 and the
\* unit value.
C18_Witness ==
    /\ document.tag = "doc"
    /\ emitted.tag = "emit_key"
    /\ emitted.map = [tag |-> "map", source |-> document.id,
                      key |-> Integer(1), value |-> Unit]

C20_IdStable ==
    /\ [](/\ successor.tag = "update_with" =>
                /\ successor.original = document
                /\ successor.result.tag = "doc" =>
                       successor.result.id = successor.original.id
          /\ \A p \in DOMAIN pc :
                (/\ Resolved(p)
                 /\ result[p].tag = "Ok"
                 /\ result[p].value.tag = "doc") =>
                    /\ loaded[p].tag = "doc"
                    /\ result[p].value.header.id = loaded[p].header.id)
    /\ [][\A p \in DOMAIN pc :
            (loaded[p].tag = "doc" /\ loaded'[p].tag = "doc") =>
                loaded'[p].header.id = loaded[p].header.id]_vars

\* update_with gave a successor, and the entry returned the document after
\* two conflicts and reloads.
C20_Witness ==
    /\ successor.tag = "update_with"
    /\ successor.result.tag = "doc"
    /\ \E p \in DOMAIN pc :
           /\ Resolved(p)
           /\ result[p].tag = "Ok"
           /\ result[p].value.tag = "doc"
           /\ Cardinality(Calls(p, "reload")) >= 2

\* C21: the steps of one execution are strictly sequential.  Its first
\* connection call is the lookup and there is no second lookup; it has at
\* most one call outstanding, the one pc names; a write is issued only
\* right after a load that returned a document (the lookup or a reload), a
\* push only right after the lookup returned nothing, and a reload only
\* right after a Conflict, so after a Conflict no write is issued until the
\* reload has returned.
C21_StrictSequence ==
    \A p \in DOMAIN pc :
        /\ pc[p] \in {"Pending", "Resolved"} \cup ConnectionCalls
        /\ pc[p] \in {"Pending", "lookup"} <=> log[p] = <<>>
        /\ log[p] # <<>> => log[p][1].call = "lookup"
        /\ \A k \in 2 .. Len(log[p]) :
               /\ log[p][k].call # "lookup"
               /\ log[p][k].call = "update" =>
                      log[p][k - 1] \in {Call("lookup", "doc"), Call("reload", "doc")}
               /\ log[p][k].call = "push" =>
                      (k = 2 /\ log[p][1] = Call("lookup", "none"))
               /\ log[p][k].call = "reload" =>
                      log[p][k - 1] = Call("update", "conflict")
        /\ pc[p] = "update" =>
               Last(log[p]) \in {Call("lookup", "doc"), Call("reload", "doc")}
        /\ pc[p] = "push" => log[p] = <<Call("lookup", "none")>>
        /\ pc[p] = "reload" => Last(log[p]) = Call("update", "conflict")

\* A write met a Conflict, the reload returned the document, and the next
\* write is outstanding.
C21_Witness ==
    \E p \in DOMAIN pc :
        /\ pc[p] = "update"
        /\ log[p] = <<Call("lookup", "doc"), Call("update", "conflict"),
                      Call("reload", "doc")>>

\* How far the state object of a future has come.
EntryStage(at) ==
    IF at = "Pending" THEN 0 ELSE IF at \in ConnectionCalls THEN 1 ELSE 2
BuilderStage(at) ==
    IF at = "Pending" THEN 0 ELSE IF at = "Executing" THEN 1 ELSE 2

\* C22: the state object of a future only moves forward, from Pending to
\* Executing to its end.  The pending configuration is there exactly as
\* long as the object is Pending, and the first poll consumes it; the
\* algorithm is started once however often the object is polled: an Entry
\* enters its lookup only from Pending and looks up once, an AsyncBuilder
\* sends its KeyOperation only from Pending and sends one.  After the first
\* poll no configuration method changes the configuration taken or the
\* operation sent.
C22_ForwardOnly ==
    /\ [](/\ \A p \in DOMAIN pc :
                /\ builder[p].tag = "some" <=> pc[p] = "Pending"
                /\ args[p].tag = "some" <=> pc[p] # "Pending"
                /\ Cardinality(Calls(p, "lookup")) <= 1
          /\ \A q \in DOMAIN numeric :
                /\ numeric[q].options.tag = "some" <=> numeric[q].state = "Pending"
                /\ Len(sent[q]) = IF numeric[q].state = "Pending" THEN 0 ELSE 1)
    /\ [][/\ \A p \in DOMAIN pc :
                /\ EntryStage(pc'[p]) >= EntryStage(pc[p])
                /\ pc'[p] = "lookup" => pc[p] \in {"Pending", "lookup"}
                /\ pc[p] # "Pending" =>
                       /\ args'[p] = args[p]
                       /\ builder'[p] = builder[p]
                /\ pc[p] = "Pending" /\ pc'[p] # "Pending" =>
                       /\ pc'[p] = "lookup"
                       /\ args'[p] = builder[p]
                       /\ retry_limit'[p] = builder[p].retry_limit
          /\ \A q \in DOMAIN numeric :
                /\ BuilderStage(numeric'[q].state) >= BuilderStage(numeric[q].state)
                /\ numeric[q].state # "Pending" =>
                       /\ sent'[q] = sent[q]
                       /\ numeric'[q].options = numeric[q].options
                /\ numeric[q].state = "Pending" /\ numeric'[q].state # "Pending" =>
                       /\ numeric'[q].state = "Executing"
                       /\ sent'[q] = <<AsyncBuilder_operation(numeric[q].options)>>]_vars

\* An entry configured while Pending has been polled through a Conflict and
\* a reload to its result, and an AsyncBuilder that was allowed to overflow
\* while Pending has returned its value.
C22_Witness ==
    /\ \E p \in DOMAIN pc :
          /\ pc[p] = "Resolved"
          /\ args[p].update = IncRank
          /\ args[p].retry_limit = MaxRetry
          /\ Len(log[p]) >= 4
    /\ \E q \in DOMAIN numeric :
          /\ numeric[q].state = "Ready"
          /\ allowed[q]
          /\ ~ sent[q][1].command.saturating

\* C23: as the doc comments of update_with and retry_limit state it, the
\* budget given to retry_limit is the number of attempts to update the
\* document, and the update callback is invoked at most that many times:
\* no execution makes more write attempts, or more calls of the callback,
\* than the budget it was started with.  Entry::execute does not keep to
\* it: it makes one attempt before it looks at the budget, so an execution
\* with budget n makes up to n + 1 attempts.
C23_AsDocumented ==
    \A p \in DOMAIN pc :
        Started(p) =>
            /\ updateCalls[p] <= args[p].retry_limit
            /\ Cardinality(Calls(p, "update")) <= args[p].retry_limit

\* C24: a failed creation hands the value back.  Whenever push, insert or
\* overwrite fails, the caller receives an InsertError holding the contents
\* it gave, unchanged, and the error that occurred, and no document; when
\* overwrite fails to serialize the contents it has issued no connection
\* call and the collection is as it was.  A creation that succeeds returns
\* a document and no error.
C24_ValueHandedBack ==
    /\ [](\A k \in 1 .. Len(pushes) :
             LET made == pushes[k]
             IN  /\ made.error # NoError <=> made.result.tag = "Err"
                 /\ made.result.tag = "Err" =>
                        made.result = Err(InsertError(made.payload, made.error))
                 /\ made.result.tag = "Ok" =>
                        /\ made.result.value.tag = "doc"
                        /\ made.result.value.contents = made.payload
                 /\ (made.op = "overwrite" /\ made.payload \in Unserializable) =>
                        /\ made.calls = 0
                        /\ made.result =
                               Err(InsertError(made.payload, Serialization))
                 /\ (made.op # "overwrite" \/ made.payload \notin Unserializable) =>
                        made.calls = 1)
    /\ [][\A k \in 1 .. Len(pushes') :
              (k > Len(pushes) /\ pushes'[k].result.tag = "Err") =>
                  store' = store]_vars

\* A push failed in the transport, an insert under a taken id was refused
\* with a Conflict, and an overwrite with contents that do not serialize
\* failed; each handed its contents back.
C24_Witness ==
    /\ \E k \in 1 .. Len(pushes) :
          pushes[k] = Created("push", 0, Contents("bob", 1), 1, Transport,
                              Err(InsertError(Contents("bob", 1), Transport)))
    /\ \E k \in 1 .. Len(pushes) :
          /\ pushes[k].op = "insert"
          /\ pushes[k].payload = Contents("bob", 1)
          /\ pushes[k].error.kind = "DocumentConflict"
          /\ pushes[k].result = Err(InsertError(Contents("bob", 1), pushes[k].error))
    /\ \E k \in 1 .. Len(pushes) :
          /\ pushes[k].op = "overwrite"
          /\ pushes[k].calls = 0
          /\ pushes[k].result =
                 Err(InsertError(Contents("carol", 0), Serialization))

\* The documents that carry name n in the collection as the resolution saw it.
Carrying(n) ==
    {i \in Ids : /\ fetched.seen[i].tag = "doc"
                 /\ deserialize(fetched.seen[i].contents).name = n}

\* C25: resolving a name, to its document (load_document) or to its id
\* (NamedReference::id), issues exactly one query of the by-name view keyed
\* by that name and no other call, and yields the first record that carries
\* the name, or nothing when none does; that several documents carry the
\* name is no error.  Resolving an id or a key to an id issues no call at
\* all and yields the id given; to a document, one get of that id.
C25_Resolution ==
    fetched.tag \in {"load_document", "id"} =>
        /\ fetched.ref.tag = "Name" =>
               /\ fetched.calls = <<ViewQuery(fetched.ref.name)>>
               /\ Carrying(fetched.ref.name) = {} <=> fetched.id = 0
               /\ fetched.id # 0 =>
                      /\ fetched.id \in Carrying(fetched.ref.name)
                      /\ \A j \in Carrying(fetched.ref.name) : fetched.id <= j
        /\ (fetched.ref.tag # "Name" /\ fetched.tag = "id") =>
               /\ fetched.calls = <<>>
               /\ fetched.id = fetched.ref.id
        /\ (fetched.ref.tag # "Name" /\ fetched.tag = "load_document") =>
               /\ fetched.calls = <<GetCall(fetched.ref.id)>>
               /\ fetched.id = IF fetched.seen[fetched.ref.id].tag = "doc"
                               THEN fetched.ref.id ELSE 0

\* Two documents carry the name alice, and load_document by that name
\* yielded the first of them.
C25_Witness ==
    /\ fetched.tag = "load_document"
    /\ fetched.ref = NameRef("alice")
    /\ Cardinality(Carrying("alice")) = 2
    /\ fetched.id = 1

\* C26: a write that changes nothing is elided.  Document::update_with with
\* contents whose bytes are the ones the document holds yields no successor,
\* so no revision is minted; with other contents it yields a successor whose
\* revision differs from the original's and whose contents are the bytes of
\* the contents given.  The original is left as it was.
C26_NoOpElided ==
    successor.tag = "update_with" =>
        /\ successor.original = document
        /\ to_vec(successor.given) = successor.original.contents <=>
               successor.result = NoDoc
        /\ successor.result # NoDoc =>
               /\ successor.result.tag = "doc"
               /\ successor.result.revision # successor.original.revision
               /\ successor.result.contents = to_vec(successor.given)
               /\ successor.result.contents # successor.original.contents

\* update_with was given the contents the document was made of and yielded
\* nothing.
C26_Witness ==
    /\ successor.tag = "update_with"
    /\ document.tag = "doc"
    /\ to_vec(successor.given) = document.contents
    /\ successor.result = NoDoc

\* update_with was given other contents and yielded a successor.
C26_WitnessChanged ==
    /\ successor.tag = "update_with"
    /\ to_vec(successor.given) # document.contents
    /\ successor.result.tag = "doc"

\* The options o as they were constructed: saturating.
AsConstructed(o) == [o EXCEPT !.saturating = TRUE]

\* C27: the KeyOperation a numeric builder sends has the namespace, the key
\* and the amount given at construction, unchanged, and its command is
\* Increment{amount, saturating} exactly when the builder was created for
\* an increment and Decrement{amount, saturating} otherwise.  Until it is
\* sent, the builder is the one that was constructed except for its
\* saturating flag, and allow_overflow changes that flag and nothing else.
C27_CommandConstruction ==
    /\ [](\A p \in DOMAIN numeric :
             numeric[p].options.tag = "some" =>
                 [numeric[p] EXCEPT !.options = AsConstructed(@)] \in NewBuilders)
    /\ [][\A p \in DOMAIN numeric :
             /\ (numeric[p].options.tag = "some" /\ numeric'[p].options.tag = "some") =>
                    /\ AsConstructed(numeric'[p].options) =
                           AsConstructed(numeric[p].options)
                    /\ allowed'[p] # allowed[p] => ~ numeric'[p].options.saturating
             /\ sent'[p] # sent[p] =>
                    LET o  == numeric[p].options
                        op == sent'[p][Len(sent'[p])]
                    IN  /\ o.tag = "some"
                        /\ op.namespace = o.namespace
                        /\ op.key = o.key
                        /\ op.command.amount = o.amount
                        /\ op.command.saturating = o.saturating
                        /\ op.command.tag = IF o.increment THEN "Increment"
                                            ELSE "Decrement"
                        /\ DOMAIN op = {"namespace", "key", "command"}
                        /\ DOMAIN op.command = {"tag", "amount", "saturating"}]_vars

\* A blocking builder made for a decrement by MaxAmount of misses in the
\* namespace stats, with overflow allowed, has sent exactly that.
C27_Witness ==
    \E p \in DOMAIN numeric :
        /\ numeric[p].mode = "blocking"
        /\ allowed[p]
        /\ sent[p] = <<KeyOperation(Namespace("stats"), "misses",
                                    Decrement(UnsignedInteger(MaxAmount), FALSE))>>

\* The writes of entry p the server accepted: acknowledged to p, or executed
\* after p was dropped.
Accepted(p) ==
    {k \in 1 .. Len(log[p]) :
        /\ log[p][k].call \in {"update", "push"}
        /\ log[p][k].out \in {"ok", "unheard"}}

\* C28: an execution commits at most one write, whether it runs to its end
\* or is dropped at an await.  Its accepted write (one update or one push)
\* is the last call it makes: it makes no call after it, so no second and
\* no compensating write.  Every change of the collection is the accepted
\* write of an execution that had none before, or the step of another
\* client; and the document an execution committed stays the one it
\* committed, also when the execution is dropped.
C28_AtMostOneWrite ==
    /\ [](\A p \in DOMAIN pc :
             /\ Cardinality(Accepted(p)) <= 1
             /\ Accepted(p) # {} =>
                    /\ Accepted(p) = {Len(log[p])}
                    /\ pc[p] \in {"Resolved", "Dropped"}
                    /\ committed[p].tag = "doc"
             /\ committed[p].tag = "doc" => Accepted(p) # {})
    /\ [][/\ store' # store =>
                \/ envOps' # envOps
                \/ \E p \in DOMAIN pc :
                      /\ Accepted(p) = {}
                      /\ log'[p] = Append(log[p], Last(log'[p]))
                      /\ Accepted(p)' = {Len(log'[p])}
          /\ \A p \in DOMAIN pc :
                committed[p].tag = "doc" => committed'[p] = committed[p]]_vars

\* An execution was dropped while its second write, after a Conflict and a
\* reload, was outstanding, and the server still executed that write.
C28_Witness ==
    \E p \in DOMAIN pc :
        /\ pc[p] = "Dropped"
        /\ log[p] = <<Call("lookup", "doc"), Call("update", "conflict"),
                      Call("reload", "doc"), Call("update", "unheard")>>
        /\ committed[p].tag = "doc"
        /\ store[committed[p].header.id].revision = committed[p].header.revision

\* C29: termination.  When every connection call returns, every execution
\* reaches a resolved result, and on the way it makes at most one lookup,
\* at most N + 1 write attempts and at most N reloads, N being the retry
\* budget it was started with, however often other clients get their
\* writes in first.
C29_Termination ==
    /\ [](\A p \in Caller :
             Started(p) =>
                 /\ Cardinality(Calls(p, "lookup")) <= 1
                 /\ Cardinality(Calls(p, "update")) <= args[p].retry_limit + 1
                 /\ Cardinality(Calls(p, "reload")) <= args[p].retry_limit
                 /\ Cardinality(Calls(p, "push")) <= 1)
    /\ \A p \in Caller : <>(Resolved(p) /\ result[p] # Unresolved)
    /\ \A p \in Caller : [](Resolved(p) => [](Resolved(p)))

\* With budget 2 the other clients won three times: the execution ended in
\* the Conflict of its third write, after two reloads.
C29_Witness ==
    \E p \in DOMAIN pc :
        /\ Resolved(p)
        /\ args[p].retry_limit = 2
        /\ Cardinality(Calls(p, "update")) = 3
        /\ Cardinality(Calls(p, "reload")) = 2
        /\ Conflicts(p) = 3
        /\ result[p].tag = "Err"
        /\ result[p].error.kind = "DocumentConflict"

\* C30: a budget of NumRacers - 1 suffices under contention.  When
\* NumRacers executions with mutators target one existing document that
\* nothing else writes or deletes, and each has a retry budget of at least
\* NumRacers - 1, no execution ends with an error or without a document,
\* none meets more than NumRacers - 1 Conflicts, and under fair scheduling
\* every one of them eventually returns an updated document.
C30_SufficientBudget ==
    /\ [](\A p \in Racers :
             /\ Conflicts(p) <= NumRacers - 1
             /\ Resolved(p) =>
                    /\ result[p].tag = "Ok"
                    /\ result[p].value.tag = "doc"
                    /\ result[p].value = committed[p]
                    /\ result[p].value.contents.rank > loaded[p].contents.rank)
    /\ [][\A p \in Racers : Resolved(p) => Resolved(p)' /\ result'[p] = result[p]]_vars
    /\ <>(\A p \in Racers : Resolved(p) /\ result[p].tag = "Ok")

\* Every racer has returned an updated document, and one of them met
\* NumRacers - 1 Conflicts on the way, using up a budget of just that.
C30_Witness ==
    /\ \A p \in DOMAIN pc : Resolved(p) /\ result[p].tag = "Ok"
    /\ DOMAIN pc = Racers
    /\ \E p \in DOMAIN pc :
          /\ Conflicts(p) = NumRacers - 1
          /\ args[p].retry_limit = NumRacers - 1
          /\ retry_limit[p] = 0

\* The documents stored under name n.
Named(n) == MatchingIds(n)

\* The pushes of entry p the server accepted.
Created_by(p) == Outcomes(p, "push", "ok")

InsertConfigured(p) == args[p].insert.tag = "some"

\* The reload of entry p found its document gone.
ReloadedNothing(p) == Outcomes(p, "reload", "none") # {}

\* C32: deleted during retry never re-creates.  When the reload after a
\* Conflict finds no document, the execution returns the empty result at
\* once: the insert callback is not invoked and nothing is pushed, with or
\* without an insert callback configured, and the reload is the last call
\* of the execution.  The insert callback is invoked, once, only when the
\* initial lookup found nothing; then there is no write attempt and no
\* reload.
C32_NeverRecreates ==
    \A p \in DOMAIN pc :
        /\ ReloadedNothing(p) =>
              /\ Resolved(p)
              /\ result[p] = OkNone
              /\ insertCalls[p] = 0
              /\ Calls(p, "push") = {}
              /\ Last(log[p]) = Call("reload", "none")
              /\ log[p][Len(log[p]) - 1] = Call("update", "conflict")
              /\ log[p][1] = Call("lookup", "doc")
        /\ (pc[p] = "push" \/ Calls(p, "push") # {} \/ insertCalls[p] > 0) =>
              /\ InsertConfigured(p)
              /\ insertCalls[p] = 1
              /\ log[p][1] = Call("lookup", "none")
              /\ Calls(p, "lookup") = {1}
              /\ Calls(p, "update") = {}
              /\ Calls(p, "reload") = {}

\* An entry with an insert callback met a Conflict, found its document
\* deleted on the reload and returned the empty result; the name is absent
\* from the store.
C32_Witness ==
    \E p \in DOMAIN pc :
        /\ InsertConfigured(p)
        /\ ReloadedNothing(p)
        /\ Resolved(p)
        /\ result[p] = OkNone
        /\ load_document(args[p].name) = 0

\* Execution p ran with no retry budget.
NoBudget(p) == Started(p) /\ args[p].retry_limit = 0

\* C33: the default retry budget is zero.  An entry is created with
\* retry_limit 0, and the budget of a pending entry changes only by a call
\* of retry_limit with another value, so an entry on which retry_limit was
\* never called executes with budget 0.  An execution with budget 0 invokes
\* the update callback at most once, and exactly once with exactly one write
\* attempt when the lookup found the document and an update callback is
\* configured; it never reloads, and a Conflict on that attempt ends it with
\* that Conflict, carrying the header the server reported.
C33_DefaultBudgetZero ==
    /\ \A p \in DOMAIN pc : builder[p].retry_limit = 0
    /\ [][\A p \in DOMAIN pc :
             (pc'[p] = "Pending"
                /\ builder'[p].retry_limit # builder[p].retry_limit) =>
                 \E n \in 0 .. MaxRetry : set_retry_limit(p, n)]_vars
    /\ [](\A p \in DOMAIN pc :
             NoBudget(p) =>
                 /\ retry_limit[p] = 0
                 /\ updateCalls[p] <= 1
                 /\ Cardinality(Calls(p, "update")) <= 1
                 /\ Calls(p, "reload") = {}
                 /\ pc[p] # "reload"
                 /\ (Resolved(p) /\ args[p].update.tag = "some"
                       /\ Outcomes(p, "lookup", "doc") # {}) =>
                        /\ updateCalls[p] = 1
                        /\ Cardinality(Calls(p, "update")) = 1
                 /\ Conflicts(p) > 0 =>
                        /\ Resolved(p)
                        /\ log[p] = <<Call("lookup", "doc"), Call("update", "conflict")>>
                        /\ result[p] = Err(DocumentConflict(lastWrite[p].header))
                        /\ ~lastWrite[p].changed
                        /\ committed[p] = NoDoc)

\* An execution with budget 0 met a Conflict on its one write attempt and
\* returned it.
C33_Witness ==
    \E p \in DOMAIN pc :
        /\ NoBudget(p)
        /\ Resolved(p)
        /\ updateCalls[p] = 1
        /\ log[p] = <<Call("lookup", "doc"), Call("update", "conflict")>>
        /\ result[p].tag = "Err"
        /\ result[p].error.kind = "DocumentConflict"

\* Entry p is pending with an insert callback, an update callback and a
\* budget configured.
Configured(p) ==
    /\ pc[p] = "Pending"
    /\ builder[p].insert \in InsertCallbacks
    /\ builder[p].update \in UpdateCallbacks
    /\ builder[p].retry_limit > 0

\* C34: the configuration of an entry is order-independent.  On every
\* pending builder, or_insert_with, update_with and retry_limit each set
\* their own setting to the value given and keep the reference and the other
\* two settings (the connection is the one server of the model); applied
\* in any of the six orders they give the same pending builder, and one
\* applied twice leaves the value given last.  Every step of a pending
\* entry that changes its builder is one of the three, and the first poll
\* starts execute() with the pending builder and nothing else, so equal
\* builders execute alike.
C34_OrderIndependent ==
    /\ [](\A p \in DOMAIN pc :
            pc[p] = "Pending" =>
              LET b == builder[p]
                  I(x, i) == EntryBuilder_or_insert_with(x, i)
                  U(x, u) == EntryBuilder_update_with(x, u)
                  R(x, n) == EntryBuilder_retry_limit(x, n)
              IN  \A i \in InsertCallbacks, u \in UpdateCallbacks,
                     n \in 0 .. MaxRetry :
                    /\ I(b, i) = [b EXCEPT !.insert = i]
                    /\ U(b, u) = [b EXCEPT !.update = u]
                    /\ R(b, n) = [b EXCEPT !.retry_limit = n]
                    /\ I(b, i).name = b.name /\ I(b, i).tag = "some"
                    /\ U(b, u).name = b.name /\ U(b, u).tag = "some"
                    /\ R(b, n).name = b.name /\ R(b, n).tag = "some"
                    /\ LET c == EntryBuilder(b.name, i, u, n)
                       IN  /\ R(U(I(b, i), u), n) = c
                           /\ U(R(I(b, i), n), u) = c
                           /\ R(I(U(b, u), i), n) = c
                           /\ I(R(U(b, u), n), i) = c
                           /\ U(I(R(b, n), i), u) = c
                           /\ I(U(R(b, n), u), i) = c
                    /\ \A i2 \in InsertCallbacks : I(I(b, i), i2) = I(b, i2)
                    /\ \A u2 \in UpdateCallbacks : U(U(b, u), u2) = U(b, u2)
                    /\ \A n2 \in 0 .. MaxRetry : R(R(b, n), n2) = R(b, n2))
    /\ [][\A p \in DOMAIN pc :
            pc[p] = "Pending" =>
              /\ (pc'[p] = "Pending" /\ builder'[p] # builder[p]) =>
                    \/ \E i \in InsertCallbacks :
                          builder'[p] = EntryBuilder_or_insert_with(builder[p], i)
                    \/ \E u \in UpdateCallbacks :
                          builder'[p] = EntryBuilder_update_with(builder[p], u)
                    \/ \E n \in 0 .. MaxRetry :
                          builder'[p] = EntryBuilder_retry_limit(builder[p], n)
              /\ pc'[p] # "Pending" =>
                    /\ args'[p] = builder[p]
                    /\ retry_limit'[p] = builder[p].retry_limit
                    /\ pc'[p] = "lookup"
                    /\ log'[p] = <<>>]_vars

\* A pending entry on which all three settings were configured.
C34_Witness ==
    \E p \in DOMAIN pc :
        /\ Configured(p)
        /\ builder[p].update = IncRank
        /\ builder[p].retry_limit = MaxRetry

====
